---- MODULE Spec2Model ----
(***************************************************************************)
(* Academic Analytics Lite (vince-wh0/DSA-CaseStudy): ingestion, weighted  *)
(* score transform and statistics over an in-memory student roster.        *)
(*                                                                         *)
(* Conventions                                                             *)
(*  - A Python value is a tagged record [t, n, d, s]:                      *)
(*      t = "absent" (key not in the dict), "none", "num", "str", "bool"   *)
(*      n/d = a number as the rational n/d in lowest terms (d > 0);        *)
(*            a bool is n = 1 / n = 0                                      *)
(*      s = a string as a sequence of one-character strings.               *)
(*  - Python floats are modelled as exact rationals; round(x, 2) is        *)
(*    round-half-even on the exact value.  Binary representation error of  *)
(*    IEEE doubles is not modelled.                                        *)
(***************************************************************************)
EXTENDS Integers, Sequences, FiniteSets, TLC

VARIABLES pc, input, output, students, config, prev

vars == <<pc, input, output, students, config, prev>>

(***************************************************************************)
(* Bounds                                                                  *)
(***************************************************************************)
MaxCellLen == 3
MaxRecords == 4
MaxScaleLen == 3
MaxRoster == 3
MaxRows == 2
MaxValues == 5
MaxStatRecords == 5
MaxSectionRecords == 4
MaxPipeRecords == 2
MaxMenuRoster == 2

(***************************************************************************)
(* Rational arithmetic                                                     *)
(***************************************************************************)
Abs(x) == IF x < 0 THEN -x ELSE x

RECURSIVE Gcd(_, _)
Gcd(a, b) == IF b = 0 THEN a ELSE Gcd(b, a % b)

RECURSIVE Pow10(_)
Pow10(k) == IF k = 0 THEN 1 ELSE 10 * Pow10(k - 1)

\* the rational a/b (b # 0) in lowest terms with a positive denominator
Rat(a, b) ==
    LET g == Gcd(Abs(a), Abs(b))
        sg == IF b < 0 THEN -1 ELSE 1
    IN  [n |-> sg * (a \div g), d |-> sg * (b \div g)]

RatAdd(x, y) == Rat(x.n * y.d + y.n * x.d, x.d * y.d)
RatSub(x, y) == Rat(x.n * y.d - y.n * x.d, x.d * y.d)
RatMul(x, y) == Rat(x.n * y.n, x.d * y.d)
RatLt(x, y) == x.n * y.d < y.n * x.d
RatLe(x, y) == x.n * y.d <= y.n * x.d

(***************************************************************************)
(* Python values                                                           *)
(***************************************************************************)
Absent == [t |-> "absent", n |-> 0, d |-> 1, s |-> <<>>]
None == [t |-> "none", n |-> 0, d |-> 1, s |-> <<>>]
Num(r) == [t |-> "num", n |-> r.n, d |-> r.d, s |-> <<>>]
Str(cs) == [t |-> "str", n |-> 0, d |-> 1, s |-> cs]
Bool(b) == [t |-> "bool", n |-> IF b THEN 1 ELSE 0, d |-> 1, s |-> <<>>]

\* a whole number / a number given in hundredths
Whole(k) == Num(Rat(k, 1))
Hun(k) == Num(Rat(k, 100))

\* the rational carried by a numeric value
RatOf(v) == [n |-> v.n, d |-> v.d]

\* dict.get(key): an absent key reads as None
Get(rec, k) == IF rec[k].t = "absent" THEN None ELSE rec[k]

\* Python truthiness of a value
Truthy(v) ==
    CASE v.t = "num" -> v.n # 0
      [] v.t = "str" -> v.s # <<>>
      [] v.t = "bool" -> v.n = 1
      [] OTHER -> FALSE

\* isinstance(v, (int, float)); bool is a subclass of int
IsNumber(v) == v.t \in {"num", "bool"}

(***************************************************************************)
(* Strings                                                                 *)
(***************************************************************************)
Whitespace == {" "}
Digits == {"0", "1", "2", "3", "4", "5", "6", "7", "8", "9"}

DigitVal(c) ==
    CASE c = "0" -> 0 [] c = "1" -> 1 [] c = "2" -> 2 [] c = "3" -> 3
      [] c = "4" -> 4 [] c = "5" -> 5 [] c = "6" -> 6 [] c = "7" -> 7
      [] c = "8" -> 8 [] c = "9" -> 9

RECURSIVE LStrip(_)
LStrip(cs) ==
    IF cs # <<>> /\ Head(cs) \in Whitespace THEN LStrip(Tail(cs)) ELSE cs

RECURSIVE RStrip(_)
RStrip(cs) ==
    IF cs # <<>> /\ cs[Len(cs)] \in Whitespace
    THEN RStrip(SubSeq(cs, 1, Len(cs) - 1))
    ELSE cs

\* str.strip()
Strip(cs) == RStrip(LStrip(cs))

(***************************************************************************)
(* Column names                                                            *)
(***************************************************************************)
K_student_id == <<"s", "t", "u", "d", "e", "n", "t", "_", "i", "d">>
K_last_name == <<"l", "a", "s", "t", "_", "n", "a", "m", "e">>
K_first_name == <<"f", "i", "r", "s", "t", "_", "n", "a", "m", "e">>
K_section == <<"s", "e", "c", "t", "i", "o", "n">>
K_quiz1 == <<"q", "u", "i", "z", "1">>
K_midterm == <<"m", "i", "d", "t", "e", "r", "m">>

\* ingest.py line 18: the columns that are never coerced to numbers
IdentityKeys == {K_student_id, K_last_name, K_first_name, K_section}

(***************************************************************************)
(* float(str): the decimal literal grammar of Python's float()             *)
(*   [sign] (digits ["." [digits]] | "." digits) [("e"|"E") [sign] digits]  *)
(* read left to right; anything else raises ValueError.                    *)
(***************************************************************************)
Signs == {"+", "-"}
ExpMarks == {"e", "E"}

\* consume the digits of cs from position i on: m accumulates the decimal
\* value, c counts the digits consumed
RECURSIVE ScanDigits(_, _, _, _)
ScanDigits(cs, i, m, c) ==
    IF i <= Len(cs) /\ cs[i] \in Digits
    THEN ScanDigits(cs, i + 1, 10 * m + DigitVal(cs[i]), c + 1)
    ELSE [i |-> i, m |-> m, c |-> c]

\* ok = FALSE is ValueError; otherwise the value is m * 10^e
ParseFloat(cs) ==
    LET n == Len(cs)
        hasSign == n >= 1 /\ cs[1] \in Signs
        sg == IF hasSign /\ cs[1] = "-" THEN -1 ELSE 1
        ip == ScanDigits(cs, IF hasSign THEN 2 ELSE 1, 0, 0)
        hasDot == ip.i <= n /\ cs[ip.i] = "."
        fp == IF hasDot THEN ScanDigits(cs, ip.i + 1, ip.m, 0)
                        ELSE [i |-> ip.i, m |-> ip.m, c |-> 0]
        hasExp == fp.i <= n /\ cs[fp.i] \in ExpMarks
        eSign == hasExp /\ fp.i + 1 <= n /\ cs[fp.i + 1] \in Signs
        esg == IF eSign /\ cs[fp.i + 1] = "-" THEN -1 ELSE 1
        ep == IF hasExp
              THEN ScanDigits(cs, IF eSign THEN fp.i + 2 ELSE fp.i + 1, 0, 0)
              ELSE [i |-> fp.i, m |-> 0, c |-> 0]
    IN  [ok |-> /\ ip.c + fp.c >= 1
                /\ hasExp => ep.c >= 1
                /\ ep.i = n + 1,
         m |-> sg * fp.m,
         e |-> esg * ep.m - fp.c]

\* ingest.py line 24: 0 <= num <= 100, for num = m * 10^e
\* (a mantissa read from a cell has fewer than 7 digits, so a negative
\* exponent beyond 6 always leaves the value below 100)
InRangeExclusive(m, e) ==
    \/ m > 0 /\ e <= 2 /\ e >= 0 /\ m * Pow10(e) < 100
    \/ m > 0 /\ e < 0 /\ (-e > 6 \/ m < 100 * Pow10(-e))

InRange(m, e) ==
    \/ m = 0
    \/ m > 0 /\ e <= 2 /\ e >= 0 /\ m * Pow10(e) <= 100
    \/ m > 0 /\ e < 0 /\ (-e > 6 \/ m <= 100 * Pow10(-e))

\* the float m * 10^e as a value
Float(m, e) ==
    IF m = 0 THEN Num(Rat(0, 1))
    ELSE IF e >= 0 THEN Num(Rat(m * Pow10(e), 1))
    ELSE Num(Rat(m, Pow10(-e)))

(***************************************************************************)
(* ingest.load_csv, lines 11-27: the cleaning of one (key, value) item of  *)
(* a row.  value is a string, or None for a cell missing from a short row  *)
(* (csv.DictReader restval).  raised names the exception that escapes.     *)
(***************************************************************************)
CleanCell(key, value) ==
    LET isStr == value.t = "str"
        k == IF isStr THEN Strip(key) ELSE key
        v == IF isStr THEN Str(Strip(value.s)) ELSE value
    IN  IF k \in IdentityKeys
        THEN [key |-> k, value |-> v, raised |-> ""]
        ELSE IF v = Str(<<>>)
        THEN [key |-> k, value |-> None, raised |-> ""]
        ELSE IF ~isStr
        THEN [key |-> k, value |-> v, raised |-> "TypeError"]
        ELSE LET f == ParseFloat(v.s)
             IN  IF ~f.ok
                 THEN [key |-> k, value |-> None, raised |-> ""]
                 ELSE [key |-> k,
                       value |-> IF InRange(f.m, f.e) THEN Float(f.m, f.e) ELSE None,
                       raised |-> ""]

(***************************************************************************)
(* Idle values of the variables a specification does not use               *)
(***************************************************************************)
NoOutput == [key |-> <<>>, value |-> None, raised |-> ""]
NoConfig == [grade_weights |-> <<>>, grading_scale |-> <<>>, at_risk_grade |-> None]

(***************************************************************************)
(* SpecCell: load_csv's cleaning of one cell, over every cell text of at   *)
(* most MaxCellLen characters                                              *)
(***************************************************************************)
Chars == {" ", "-", ".", "0", "1", "9", "e", "x"}

CellStrings == UNION {[1..n -> Chars] : n \in 0..MaxCellLen}

\* header names as they may stand in the file, padded or not
CellKeys == {K_student_id, <<" ">> \o K_section \o <<" ">>,
             K_quiz1, <<" ">> \o K_midterm}

CellValues == {Str(cs) : cs \in CellStrings} \cup {None}

InitCell ==
    /\ pc = "cell"
    /\ input \in [key : CellKeys, value : CellValues]
    /\ output = NoOutput
    /\ students = <<>>
    /\ config = NoConfig
    /\ prev = <<>>

CleanCellStep ==
    /\ pc = "cell"
    /\ output' = CleanCell(input.key, input.value)
    /\ pc' = "cleaned"
    /\ UNCHANGED <<input, students, config, prev>>

NextCell == CleanCellStep

SpecCell == InitCell /\ [][NextCell]_vars

(***************************************************************************)
(* C10                                                                     *)
(***************************************************************************)
\* the decimal value of the digits cs[lo..hi]
RECURSIVE DecValue(_, _, _)
DecValue(cs, lo, hi) ==
    IF lo > hi THEN 0 ELSE 10 * DecValue(cs, lo, hi - 1) + DigitVal(cs[hi])

AllDigits(cs, lo, hi) == \A i \in lo..hi : cs[i] \in Digits

\* cs is a float literal split as: sign cs[1..a], integer digits
\* cs[a+1..b], fraction (with its dot) cs[b+1..c], exponent cs[c+1..Len]
LiteralSplit(cs, a, b, c) ==
    LET n == Len(cs)
        x == IF c + 2 <= n /\ cs[c + 2] \in Signs THEN c + 3 ELSE c + 2
    IN  /\ a <= b /\ b <= c /\ c <= n
        /\ a = 1 => cs[1] \in Signs
        /\ AllDigits(cs, a + 1, b)
        /\ c > b => cs[b + 1] = "." /\ AllDigits(cs, b + 2, c)
        /\ (b - a) + (IF c > b THEN c - b - 1 ELSE 0) >= 1
        /\ c < n => /\ cs[c + 1] \in ExpMarks
                    /\ x <= n
                    /\ AllDigits(cs, x, n)

Splits(cs) ==
    {sp \in (0..1) \X (0..Len(cs)) \X (0..Len(cs)) : LiteralSplit(cs, sp[1], sp[2], sp[3])}

IsLiteral(cs) == Splits(cs) # {}

\* sign, digits and power of ten of a literal: value = sgn * digs * 10^pow
LiteralParts(cs) ==
    LET sp == CHOOSE q \in Splits(cs) : TRUE
        a == sp[1]
        b == sp[2]
        c == sp[3]
        n == Len(cs)
        nfrac == IF c > b THEN c - b - 1 ELSE 0
        x == IF c + 2 <= n /\ cs[c + 2] \in Signs THEN c + 3 ELSE c + 2
        ex == IF c < n THEN DecValue(cs, x, n) ELSE 0
        exsg == IF c < n /\ cs[c + 2] = "-" THEN -1 ELSE 1
    IN  [sgn |-> IF a = 1 /\ cs[1] = "-" THEN -1 ELSE 1,
         digs |-> DecValue(cs, a + 1, b) * Pow10(nfrac) + DecValue(cs, b + 2, c),
         pow |-> exsg * ex - nfrac]

\* the value of a literal that lies in [0, 100] is the rational r
LiteralIs(cs, r) ==
    LET p == LiteralParts(cs)
    IN  \/ p.digs = 0 /\ r = Rat(0, 1)
        \/ /\ p.digs > 0 /\ p.sgn = 1 /\ p.pow <= 2
           /\ IF p.pow >= 0 THEN r = Rat(p.digs * Pow10(p.pow), 1)
                            ELSE r = Rat(p.digs, Pow10(-p.pow))

LiteralInRange(cs) ==
    LET p == LiteralParts(cs)
    IN  \/ p.digs = 0
        \/ /\ p.digs > 0 /\ p.sgn = 1 /\ p.pow <= 2
           /\ IF p.pow >= 0 THEN p.digs * Pow10(p.pow) <= 100
                            ELSE p.pow < -6 \/ p.digs <= 100 * Pow10(-p.pow)

\* C10: in load_csv a cell of a column other than the four identity columns
\* becomes None when its trimmed text is empty, not a number, or a number
\* outside [0,100], and becomes that number when it lies in [0,100] (bounds
\* included); a cell of an identity column stays the trimmed string.
C10_CellCoercion ==
    (pc = "cleaned" /\ input.value.t = "str") =>
        LET k == Strip(input.key)
            v == Strip(input.value.s)
        IN  /\ output.raised = ""
            /\ output.key = k
            /\ IF k \in IdentityKeys THEN output.value = Str(v)
               ELSE IF v = <<>> \/ ~IsLiteral(v) \/ ~LiteralInRange(v)
               THEN output.value = None
               ELSE /\ output.value.t = "num"
                    /\ LiteralIs(v, RatOf(output.value))

\* a bound of the range, a padded number and a padded identity cell have
\* been cleaned
C10_Witness ==
    /\ pc = "cleaned"
    /\ input.key = <<" ">> \o K_midterm
    /\ input.value = Str(<<"1", "0", "0">>)
    /\ output.value = Whole(100)

(***************************************************************************)
(* Student records: a dict over the known keys; Absent marks a key the     *)
(* dict does not hold                                                      *)
(***************************************************************************)
BlankRecord ==
    [student_id |-> Absent, last_name |-> Absent, first_name |-> Absent,
     section |-> Absent,
     quiz1 |-> Absent, quiz2 |-> Absent, quiz3 |-> Absent, quiz4 |-> Absent,
     quiz5 |-> Absent,
     midterm |-> Absent, final |-> Absent, attendance_percent |-> Absent,
     final_score |-> Absent, letter_grade |-> Absent, is_at_risk |-> Absent]

(***************************************************************************)
(* ingest.validate_data                                                    *)
(***************************************************************************)
\* one iteration of the loop (lines 46-53) on the accumulator [valid, seen_ids]
ValidateStepNoSeen(acc, rec) ==
    LET sid == Get(rec, "student_id")
    IN  IF Truthy(sid) /\ sid \notin acc.seen_ids
        THEN [valid |-> Append(acc.valid, rec), seen_ids |-> acc.seen_ids]
        ELSE acc

ValidateStep(acc, rec) ==
    LET sid == Get(rec, "student_id")
    IN  IF Truthy(sid) /\ sid \notin acc.seen_ids
        THEN [valid |-> Append(acc.valid, rec),
              seen_ids |-> acc.seen_ids \cup {sid}]
        ELSE acc

RECURSIVE ValidateLoop(_, _, _)
ValidateLoop(records, i, acc) ==
    IF i > Len(records) THEN acc
    ELSE ValidateLoop(records, i + 1, ValidateStep(acc, records[i]))

validate_data(records) ==
    ValidateLoop(records, 1, [valid |-> <<>>, seen_ids |-> {}]).valid

(***************************************************************************)
(* SpecValidate: validate_data over every record list of at most           *)
(* MaxRecords records                                                      *)
(***************************************************************************)
Id101 == Str(<<"1", "0", "1">>)
Id102 == Str(<<"1", "0", "2">>)
NameA == Str(<<"R", "e", "y", "e", "s">>)
NameB == Str(<<"S", "a", "n", "t", "o", "s">>)

\* student_id as read from a file ('' for an empty cell), None as in a
\* hand-built record, or no such key
IdValues == {Absent, None, Str(<<>>), Id101, Id102}

RawRecords ==
    {[BlankRecord EXCEPT !.student_id = i, !.last_name = n] :
        i \in IdValues, n \in {NameA, NameB}}

RecordLists == UNION {[1..n -> RawRecords] : n \in 0..MaxRecords}

InitValidate ==
    /\ pc = "loaded"
    /\ input \in RecordLists
    /\ output = <<>>
    /\ students = <<>>
    /\ config = NoConfig
    /\ prev = <<>>

ValidateData ==
    /\ pc = "loaded"
    /\ output' = validate_data(input)
    /\ pc' = "validated"
    /\ UNCHANGED <<input, students, config, prev>>

NextValidate == ValidateData

SpecValidate == InitValidate /\ [][NextValidate]_vars

(***************************************************************************)
(* C1                                                                      *)
(***************************************************************************)
HasId(rec) == rec.student_id.t = "str" /\ rec.student_id.s # <<>>

\* the positions of the first occurrence of each non-empty student_id
FirstOccurrences(records) ==
    {i \in 1..Len(records) :
        /\ HasId(records[i])
        /\ \A j \in 1..(i - 1) : records[j].student_id # records[i].student_id}

\* C1: validate_data returns exactly the first occurrence of each non-empty
\* student_id, in input order; later duplicates and records with an empty or
\* None id are dropped, nothing else is, and no two results share an id.
C1_Deduplicate ==
    pc = "validated" =>
        LET K == FirstOccurrences(input)
        IN  /\ Len(output) = Cardinality(K)
            /\ \A i \in K : output[Cardinality({j \in K : j <= i})] = input[i]
            /\ \A a, b \in 1..Len(output) :
                   a # b => output[a].student_id # output[b].student_id

\* the ids 101, 102, 101, None give the first 101 record, then the 102 record
C1_Witness ==
    /\ pc = "validated"
    /\ Len(input) = 4
    /\ input[1].student_id = Id101 /\ input[1].last_name = NameA
    /\ input[2].student_id = Id102
    /\ input[3].student_id = Id101 /\ input[3].last_name = NameB
    /\ input[4].student_id = None
    /\ output = <<input[1], input[2]>>

(***************************************************************************)
(* transform.compute_final_score                                           *)
(***************************************************************************)
\* round(x, 2) on the exact value: nearest hundredth, ties to even
Round2(r) ==
    LET N == 100 * r.n
        q == N \div r.d
        rem == N - q * r.d
    IN  IF 2 * rem < r.d THEN Rat(q, 100)
        ELSE IF 2 * rem > r.d THEN Rat(q + 1, 100)
        ELSE IF q % 2 = 0 THEN Rat(q, 100)
        ELSE Rat(q + 1, 100)

QuizKeys == <<"quiz1", "quiz2", "quiz3", "quiz4", "quiz5">>

\* lines 23-27: the numeric quiz scores of the record, quiz1 to quiz5
RECURSIVE QuizScores(_, _)
QuizScores(record, i) ==
    IF i > Len(QuizKeys) THEN <<>>
    ELSE LET q_score == Get(record, QuizKeys[i])
         IN  (IF IsNumber(q_score) THEN <<RatOf(q_score)>> ELSE <<>>)
                 \o QuizScores(record, i + 1)

RECURSIVE RatSum(_)
RatSum(rs) == IF rs = <<>> THEN Rat(0, 1) ELSE RatAdd(Head(rs), RatSum(Tail(rs)))

\* statistics.mean of a non-empty list
Total(rs) == RatSum(rs)

Mean(rs) == RatMul(RatSum(rs), Rat(1, Len(rs)))

\* line 30: mean of the quizzes present, otherwise 0.0
QuizAvgOverFive(quiz_scores) == Num(RatMul(RatSum(quiz_scores), Rat(1, Len(QuizKeys))))

QuizAvgOrNone(quiz_scores) ==
    IF quiz_scores # <<>> THEN Num(Mean(quiz_scores)) ELSE None

QuizAvg(quiz_scores) ==
    IF quiz_scores # <<>> THEN Num(Mean(quiz_scores)) ELSE Num(Rat(0, 1))

\* lines 33-38 and 43: component_scores.get(config_key)
ComponentScore(record, config_key) ==
    CASE config_key = "quiz" -> QuizAvg(QuizScores(record, 1))
      [] config_key = "midterm" -> Get(record, "midterm")
      [] config_key = "final" -> Get(record, "final")
      [] config_key = "attendance" -> Get(record, "attendance_percent")
      [] OTHER -> None

\* lines 42-53: the loop over the weight entries; acc is the running
\* final_score.  A None score returns None; a score that is not a number
\* raises TypeError in score * weight, which is caught and returns None.
RECURSIVE WeightedLoop(_, _, _, _)
WeightedLoop(record, grade_weights, i, acc) ==
    IF i > Len(grade_weights) THEN Num(Round2(acc))
    ELSE LET score == ComponentScore(record, grade_weights[i].key)
         IN  IF ~IsNumber(score) THEN None
             ELSE WeightedLoop(record, grade_weights, i + 1,
                      RatAdd(acc, RatMul(RatOf(score), RatOf(grade_weights[i].weight))))

\* line 20: the accumulator starts at 0.0
StartFromRecord(record) ==
    IF IsNumber(Get(record, "final_score")) THEN RatOf(record.final_score)
    ELSE Rat(0, 1)

StartScore(record) == Rat(0, 1)

compute_final_score(record, grade_weights) ==
    WeightedLoop(record, grade_weights, 1, StartScore(record))

(***************************************************************************)
(* SpecScore: compute_final_score over records and weight mappings         *)
(***************************************************************************)
\* tests/unit_tests.py MOCK_CONFIG grade_weights, in file order
MockWeights ==
    <<[key |-> "quiz", weight |-> Hun(25)],
      [key |-> "midterm", weight |-> Hun(30)],
      [key |-> "final", weight |-> Hun(30)],
      [key |-> "attendance", weight |-> Hun(15)]>>

ComponentKeys == {"quiz", "midterm", "final", "attendance"}

\* every sub-mapping of the mock weights, the mock weights in reverse
\* order, a mapping with an entry for an unknown component, and a mapping
\* whose weights sum to more than 1
WeightConfigs ==
    {SelectSeq(MockWeights, LAMBDA e : e.key \in S) : S \in SUBSET ComponentKeys}
    \cup {<<MockWeights[4], MockWeights[3], MockWeights[2], MockWeights[1]>>}
    \cup {Append(MockWeights, [key |-> "bonus", weight |-> Hun(10)])}
    \cup {<<[key |-> "bonus", weight |-> Hun(10)], MockWeights[1]>>}
    \cup {<<[key |-> "quiz", weight |-> Hun(50)],
            [key |-> "midterm", weight |-> Hun(50)],
            [key |-> "final", weight |-> Hun(50)]>>}

ScoreRecords ==
    {[BlankRecord EXCEPT !.quiz1 = q1, !.quiz2 = q2, !.quiz3 = q3, !.quiz4 = q4,
                         !.quiz5 = q5, !.midterm = m, !.final = f,
                         !.attendance_percent = a] :
        q1 \in {None, Whole(80)},
        q2 \in {Absent, None, Whole(90), Whole(100)},
        q3 \in {Absent, None, Whole(100)},
        q4 \in {Absent, Whole(70)},
        q5 \in {Absent, None, Whole(80)},
        m \in {Absent, None, Whole(80), Whole(85)},
        f \in {None, Whole(80), Whole(90)},
        a \in {None, Whole(0), Whole(100)}}

InitScore ==
    /\ pc = "record"
    /\ input \in [record : ScoreRecords, grade_weights : WeightConfigs]
    /\ output = None
    /\ students = <<>>
    /\ config = NoConfig
    /\ prev = <<>>

ComputeFinalScore ==
    /\ pc = "record"
    /\ output' = compute_final_score(input.record, input.grade_weights)
    /\ pc' = "scored"
    /\ UNCHANGED <<input, students, config, prev>>

NextScore == ComputeFinalScore

SpecScore == InitScore /\ [][NextScore]_vars

(***************************************************************************)
(* C2, C3                                                                  *)
(***************************************************************************)
WeightKeys(grade_weights) == {grade_weights[i].key : i \in 1..Len(grade_weights)}

\* the weight of a component, 0 when the mapping has no entry for it
WeightOf(grade_weights, k) ==
    IF k \in WeightKeys(grade_weights)
    THEN RatOf((CHOOSE e \in {grade_weights[i] : i \in 1..Len(grade_weights)} :
                    e.key = k).weight)
    ELSE Rat(0, 1)

\* the record field a non-quiz component reads
FieldOf(k) ==
    CASE k = "midterm" -> "midterm"
      [] k = "final" -> "final"
      [] k = "attendance" -> "attendance_percent"

IsNull(v) == v.t \in {"absent", "none"}

\* C2: for weights over quiz, midterm, final, attendance, compute_final_score
\* is None exactly when a weighted non-quiz component is null in the record;
\* absent or null quizzes never make it None.
C2_NullIffComponentNull ==
    (pc = "scored" /\ WeightKeys(input.grade_weights) \subseteq ComponentKeys) =>
        (output = None <=>
            \E k \in WeightKeys(input.grade_weights) \ {"quiz"} :
                IsNull(input.record[FieldOf(k)]))

\* a record without any quiz value, all weighted components present, has a score
C2_Witness ==
    /\ pc = "scored"
    /\ input.grade_weights = MockWeights
    /\ \A i \in 1..5 : IsNull(input.record[QuizKeys[i]])
    /\ output # None

QuizValue(record, k) == IF IsNumber(record[k]) THEN RatOf(record[k]) ELSE Rat(0, 1)

QuizCount(record) == Cardinality({i \in 1..5 : IsNumber(record[QuizKeys[i]])})

\* the mean of the non-null quizzes, 0 without any
QuizMean(record) ==
    LET total == RatAdd(RatAdd(RatAdd(RatAdd(QuizValue(record, "quiz1"),
                     QuizValue(record, "quiz2")), QuizValue(record, "quiz3")),
                     QuizValue(record, "quiz4")), QuizValue(record, "quiz5"))
    IN  IF QuizCount(record) = 0 THEN Rat(0, 1)
        ELSE Rat(total.n, total.d * QuizCount(record))

ValueOrZero(v) == IF IsNumber(v) THEN RatOf(v) ELSE Rat(0, 1)

\* sum of weight * component value over the weight entries
WeightedSum(record, grade_weights) ==
    RatAdd(RatAdd(RatAdd(
        RatMul(WeightOf(grade_weights, "quiz"), QuizMean(record)),
        RatMul(WeightOf(grade_weights, "midterm"), ValueOrZero(record.midterm))),
        RatMul(WeightOf(grade_weights, "final"), ValueOrZero(record.final))),
        RatMul(WeightOf(grade_weights, "attendance"),
               ValueOrZero(record.attendance_percent)))

\* r is x rounded to 2 decimals: a whole number of hundredths within 0.005 of x
IsRounded2(r, x) ==
    /\ 100 % r.d = 0
    /\ LET diff == RatSub(r, x)
       IN  200 * Abs(diff.n) <= diff.d

\* C3: when no weighted component is null, compute_final_score is the sum of
\* weight * component over the weight entries rounded to 2 decimals, the quiz
\* component being the mean of the non-null quizzes and 0.0 without any.
C3_WeightedSum ==
    (pc = "scored" /\ WeightKeys(input.grade_weights) \subseteq ComponentKeys
                   /\ output # None) =>
        /\ output.t = "num"
        /\ IsRounded2(RatOf(output), WeightedSum(input.record, input.grade_weights))

\* quizzes 80, 90, 100, 70, 80, midterm 85, final 90, attendance 100 under the
\* mock weights score 88.5
C3_Witness ==
    /\ pc = "scored"
    /\ input.grade_weights = MockWeights
    /\ input.record.quiz1 = Whole(80) /\ input.record.quiz2 = Whole(90)
    /\ input.record.quiz3 = Whole(100) /\ input.record.quiz4 = Whole(70)
    /\ input.record.quiz5 = Whole(80)
    /\ input.record.midterm = Whole(85) /\ input.record.final = Whole(90)
    /\ input.record.attendance_percent = Whole(100)
    /\ output = Hun(8850)

(***************************************************************************)
(* transform.get_letter_grade                                              *)
(***************************************************************************)
GradeNA == <<"N", "/", "A">>
GradeF == <<"F">>
GradeA == <<"A">>
GradeB == <<"B">>
GradeD == <<"D">>

\* line 10: sorted(grading_scale.items(), key=threshold, reverse=True).
\* The sort is stable: entries with equal thresholds keep their dict order.
RECURSIVE InsertDesc(_, _)
InsertDesc(sorted, e) ==
    IF sorted = <<>> THEN <<e>>
    ELSE IF RatLt(RatOf(Head(sorted).threshold), RatOf(e.threshold))
         THEN <<e>> \o sorted
         ELSE <<Head(sorted)>> \o InsertDesc(Tail(sorted), e)

RECURSIVE SortedScale(_)
SortedScale(grading_scale) ==
    IF grading_scale = <<>> THEN <<>>
    ELSE InsertDesc(SortedScale(SubSeq(grading_scale, 1, Len(grading_scale) - 1)),
                    grading_scale[Len(grading_scale)])

\* line 13: score >= threshold
MeetsStrictly(score, threshold) == RatLt(RatOf(threshold), RatOf(score))

Meets(score, threshold) == RatLe(RatOf(threshold), RatOf(score))

\* lines 12-16: the first entry the score meets, else the literal 'F'
RECURSIVE FirstMet(_, _)
FirstMet(score, sorted_scale) ==
    IF sorted_scale = <<>> THEN GradeF
    ELSE IF Meets(score, Head(sorted_scale).threshold) THEN Head(sorted_scale).grade
    ELSE FirstMet(score, Tail(sorted_scale))

GradeOfZero(score, grading_scale) ==
    FirstMet(IF score = None THEN Whole(0) ELSE score, SortedScale(grading_scale))

get_letter_grade(score, grading_scale) ==
    IF score = None THEN GradeNA
    ELSE FirstMet(score, SortedScale(grading_scale))

(***************************************************************************)
(* SpecGrade: get_letter_grade over scores and grading scales of at most   *)
(* MaxScaleLen entries                                                     *)
(***************************************************************************)
ScaleEntries ==
    [grade : {GradeA, GradeB, GradeD, GradeF},
     threshold : {Whole(0), Whole(60), Whole(90)}]

\* a dict holds each label once
DistinctGrades(scale) ==
    \A i, j \in 1..Len(scale) : i # j => scale[i].grade # scale[j].grade

GradingScales ==
    {scale \in UNION {[1..n -> ScaleEntries] : n \in 0..MaxScaleLen} :
        DistinctGrades(scale)}

GradeScores == {None, Whole(0), Hun(5990), Whole(60), Hun(8999), Whole(90), Whole(100)}

InitGrade ==
    /\ pc = "score"
    /\ input \in [score : GradeScores, grading_scale : GradingScales]
    /\ output = <<>>
    /\ students = <<>>
    /\ config = NoConfig
    /\ prev = <<>>

GetLetterGrade ==
    /\ pc = "score"
    /\ output' = get_letter_grade(input.score, input.grading_scale)
    /\ pc' = "graded"
    /\ UNCHANGED <<input, students, config, prev>>

NextGrade == GetLetterGrade

SpecGrade == InitGrade /\ [][NextGrade]_vars

(***************************************************************************)
(* C4, C5                                                                  *)
(***************************************************************************)
EntriesOf(scale) == {scale[i] : i \in 1..Len(scale)}

\* the entries whose threshold the score meets or exceeds
MetEntries(score, scale) ==
    {e \in EntriesOf(scale) : RatLe(RatOf(e.threshold), RatOf(score))}

\* C4: get_letter_grade is "N/A" for a None score; otherwise, when the score
\* reaches some threshold, it is the label of an entry with the highest
\* threshold <= score (a score equal to a threshold earns that grade).
C4_HighestThresholdMet ==
    pc = "graded" =>
        IF input.score = None THEN output = GradeNA
        ELSE LET met == MetEntries(input.score, input.grading_scale)
             IN  met # {} =>
                    \E e \in met :
                        /\ output = e.grade
                        /\ \A o \in met : RatLe(RatOf(o.threshold), RatOf(e.threshold))

\* a score exactly at the threshold of B, under a scale that also has a
\* lower grade, earns B
C4_Witness ==
    /\ pc = "graded"
    /\ input.score = Whole(60)
    /\ [grade |-> GradeB, threshold |-> Whole(60)] \in EntriesOf(input.grading_scale)
    /\ [grade |-> GradeF, threshold |-> Whole(0)] \in EntriesOf(input.grading_scale)
    /\ output = GradeB

\* the entries with the smallest threshold of the scale
LowestEntries(scale) ==
    {e \in EntriesOf(scale) :
        \A o \in EntriesOf(scale) : RatLe(RatOf(e.threshold), RatOf(o.threshold))}

\* C5: a non-null score below every threshold of the scale gets the lowest
\* defined grade of the scale, so the result is always "N/A" or a label of
\* the scale.
C5_FallbackIsLowestGrade ==
    (pc = "graded" /\ input.grading_scale # <<>>) =>
        /\ (input.score # None /\ MetEntries(input.score, input.grading_scale) = {})
              => output \in {e.grade : e \in LowestEntries(input.grading_scale)}
        /\ output \in {GradeNA} \cup {e.grade : e \in EntriesOf(input.grading_scale)}

(***************************************************************************)
(* transform.set_risk_status, analyze.at_risk_students                     *)
(***************************************************************************)
\* transform.py line 62: final_score < at_risk_threshold
BelowOrAt(score, threshold) == RatLe(RatOf(score), RatOf(threshold))

Below(score, threshold) == RatLt(RatOf(score), RatOf(threshold))

set_risk_status(record, at_risk_threshold) ==
    LET final_score == Get(record, "final_score")
    IN  IF final_score # None /\ Below(final_score, at_risk_threshold)
        THEN [record EXCEPT !.is_at_risk = Bool(TRUE)]
        ELSE [record EXCEPT !.is_at_risk = Bool(FALSE)]

\* analyze.py line 79: r.get("final_score") or 0
OrZeroKeepingNone(v) == IF v.t = "num" THEN v ELSE IF v.t = "none" THEN Whole(101) ELSE Whole(0)

OrZero(v) == IF Truthy(v) THEN v ELSE Whole(0)

at_risk_students_scored(rows, threshold) ==
    SelectSeq(rows, LAMBDA r : /\ IsNumber(Get(r, "final_score"))
                               /\ RatLt(RatOf(Get(r, "final_score")), RatOf(threshold)))

at_risk_students(rows, threshold) ==
    SelectSeq(rows, LAMBDA r : RatLt(RatOf(OrZero(Get(r, "final_score"))),
                                     RatOf(threshold)))

(***************************************************************************)
(* SpecRisk: the two at-risk paths over rosters of at most MaxRoster       *)
(* scored records                                                          *)
(***************************************************************************)
\* final scores of tests/unit_tests.py MOCK_TRANSFORMED_RECORDS and of the
\* set_risk_status test, a zero score, a null score and a missing key
FinalScores ==
    {Absent, None, Whole(0), Whole(62), Hun(6490), Whole(65), Whole(88), Hun(9550)}

ScoredRecords == {[BlankRecord EXCEPT !.final_score = v] : v \in FinalScores}

Rosters(records) == UNION {[1..n -> records] : n \in 0..MaxRoster}

\* the i-th student id of a roster: ids are unique and non-empty after ingestion
IdOf(i) == Str(<<"1", "0", CHOOSE c \in Digits : DigitVal(c) = i>>)

WithIds(roster) == [i \in 1..Len(roster) |-> [roster[i] EXCEPT !.student_id = IdOf(i)]]

RiskThresholds == {Whole(0), Whole(65), Whole(-1)}

InitRisk ==
    /\ pc = "roster"
    /\ input = <<>>
    /\ output = <<>>
    /\ students \in {WithIds(roster) : roster \in Rosters(ScoredRecords)}
    /\ config \in [grade_weights : {<<>>}, grading_scale : {<<>>},
                   at_risk_grade : RiskThresholds]
    /\ prev = <<>>

\* set_risk_status on one record of the roster
SetRiskStatus ==
    /\ pc = "roster"
    /\ \E i \in 1..Len(students) :
           students' = [students EXCEPT ![i] = set_risk_status(@, config.at_risk_grade)]
    /\ UNCHANGED <<pc, input, output, config, prev>>

\* at_risk_students on the roster
AtRiskStudents ==
    /\ pc = "roster"
    /\ output' = at_risk_students(students, config.at_risk_grade)
    /\ pc' = "listed"
    /\ UNCHANGED <<input, students, config, prev>>

NextRisk == SetRiskStatus \/ AtRiskStudents

SpecRisk == InitRisk /\ [][NextRisk]_vars

(***************************************************************************)
(* C6, C7                                                                  *)
(***************************************************************************)
HasScore(rec) == rec.final_score.t = "num"

ScoreBelow(rec, threshold) ==
    rec.final_score.n * threshold.d < threshold.n * rec.final_score.d

\* C6: set_risk_status sets is_at_risk to True exactly when final_score is
\* non-null and strictly below the threshold; a score equal to the threshold
\* and a null score give False.
C6_RiskFlag ==
    \A i \in 1..Len(students) :
        students[i].is_at_risk # Absent =>
            /\ students[i].is_at_risk \in {Bool(TRUE), Bool(FALSE)}
            /\ students[i].is_at_risk = Bool(TRUE) <=>
                   (HasScore(students[i]) /\ ScoreBelow(students[i], config.at_risk_grade))

\* with threshold 65: 64.9 is flagged, 65.0 and a null score are not
C6_Witness ==
    /\ config.at_risk_grade = Whole(65)
    /\ Len(students) = 3
    /\ students[1].final_score = Hun(6490) /\ students[1].is_at_risk = Bool(TRUE)
    /\ students[2].final_score = Whole(65) /\ students[2].is_at_risk = Bool(FALSE)
    /\ students[3].final_score = None /\ students[3].is_at_risk = Bool(FALSE)

\* a record is at risk on the aggregate path: a null or absent score counts as 0
CountsAtRisk(rec, threshold) ==
    IF HasScore(rec) THEN ScoreBelow(rec, threshold) ELSE threshold.n > 0

\* C7: at_risk_students returns, in input order, exactly the records with
\* (final_score or 0) < threshold; a null or absent score counts as 0 and is
\* returned whenever threshold > 0.
C7_AtRiskFilter ==
    pc = "listed" =>
        LET K == {i \in 1..Len(students) : CountsAtRisk(students[i], config.at_risk_grade)}
        IN  /\ Len(output) = Cardinality(K)
            /\ \A i \in K : output[Cardinality({j \in K : j <= i})] = students[i]

\* threshold 65 over the scores 95.5, 62.0, null returns the 62.0 record and
\* the null record
C7_Witness ==
    /\ pc = "listed"
    /\ config.at_risk_grade = Whole(65)
    /\ Len(students) = 3
    /\ students[1].final_score = Hun(9550)
    /\ students[2].final_score = Whole(62)
    /\ students[3].final_score = None
    /\ output = <<students[2], students[3]>>

(***************************************************************************)
(* transform.transform_records                                             *)
(***************************************************************************)
\* line 74: config.get('thresholds', {}).get('at_risk_grade', 65.0)
DefaultAtRisk == Whole(65)

AtRiskThreshold(cfg) ==
    IF cfg.at_risk_grade = Absent THEN DefaultAtRisk ELSE cfg.at_risk_grade

\* line 80: record['final_score'] = final_score
WriteFinal(record, final_score) == [record EXCEPT !.final = final_score]

WriteFinalScore(record, final_score) == [record EXCEPT !.final_score = final_score]

\* lines 79-85: the loop body for one record
TransformRecord(record, cfg) ==
    LET final_score == compute_final_score(record, cfg.grade_weights)
        r1 == WriteFinalScore(record, final_score)
        letter_grade == get_letter_grade(final_score, cfg.grading_scale)
        r2 == [r1 EXCEPT !.letter_grade = Str(letter_grade)]
    IN  set_risk_status(r2, AtRiskThreshold(cfg))

transform_records(records, cfg) ==
    [i \in 1..Len(records) |-> TransformRecord(records[i], cfg)]

(***************************************************************************)
(* SpecTransform: transform_records applied, and applied again, to rosters *)
(* of at most MaxRoster ingested records                                   *)
(***************************************************************************)
\* tests/unit_tests.py MOCK_CONFIG grading_scale, in file order
MockScale ==
    <<[grade |-> <<"A">>, threshold |-> Whole(93)],
      [grade |-> <<"A", "-">>, threshold |-> Whole(90)],
      [grade |-> <<"B", "+">>, threshold |-> Whole(87)],
      [grade |-> <<"B">>, threshold |-> Whole(83)],
      [grade |-> <<"B", "-">>, threshold |-> Whole(80)],
      [grade |-> <<"C", "+">>, threshold |-> Whole(77)],
      [grade |-> <<"C">>, threshold |-> Whole(73)],
      [grade |-> <<"C", "-">>, threshold |-> Whole(70)],
      [grade |-> <<"D", "+">>, threshold |-> Whole(67)],
      [grade |-> <<"D">>, threshold |-> Whole(60)],
      [grade |-> <<"F">>, threshold |-> Whole(0)]>>

\* a scale whose lowest grade is not F
ScaleWithoutF ==
    <<[grade |-> GradeB, threshold |-> Whole(60)],
      [grade |-> GradeA, threshold |-> Whole(90)]>>

Configs ==
    [grade_weights : {MockWeights, <<MockWeights[1], MockWeights[3]>>},
     grading_scale : {MockScale, ScaleWithoutF},
     at_risk_grade : {Absent, Whole(65), Whole(85)}]

Section1A == Str(<<"B", "S", "I", "T", "-", "1", "A">>)

IngestedRecords ==
    {[BlankRecord EXCEPT !.last_name = NameA, !.first_name = NameB,
                         !.section = sec, !.quiz1 = q1, !.quiz2 = Whole(100),
                         !.midterm = m, !.final = f,
                         !.attendance_percent = Whole(100)] :
        sec \in {Section1A}, q1 \in {None, Whole(80)},
        m \in {None, Whole(80)}, f \in {Whole(30), Whole(80)}}

InitTransform ==
    /\ pc = "loaded"
    /\ \E roster \in Rosters(IngestedRecords) :
           /\ students = WithIds(roster)
           /\ input = WithIds(roster)
    /\ output = <<>>
    /\ config \in Configs
    /\ prev = <<>>

TransformRecords ==
    /\ pc \in {"loaded", "once"}
    /\ prev' = students
    /\ students' = transform_records(students, config)
    /\ output' = students'
    /\ pc' = IF pc = "loaded" THEN "once" ELSE "twice"
    /\ UNCHANGED <<input, config>>

NextTransform == TransformRecords

SpecTransform == InitTransform /\ [][NextTransform]_vars

(***************************************************************************)
(* C8, C9                                                                  *)
(***************************************************************************)
\* C8: transform_records is idempotent: applied to the already annotated
\* records with the same configuration it leaves every field of every
\* record as the first application left it.
C8_Idempotent == pc = "twice" => students = prev

\* a roster with a scored record has been transformed twice
C8_Witness ==
    /\ pc = "twice"
    /\ Len(students) = 2
    /\ students[1].final_score = Hun(8550)
    /\ students[2].final_score = None
    /\ prev = students

NonDerivedFields ==
    {"student_id", "last_name", "first_name", "section", "quiz1", "quiz2",
     "quiz3", "quiz4", "quiz5", "midterm", "final", "attendance_percent"}

DerivedFields == {"final_score", "letter_grade", "is_at_risk"}

\* C9: transform_records returns the same records in the same order and
\* number, changes no non-derived field, and writes the three derived
\* fields final_score, letter_grade and is_at_risk on every record.
C9_Frame ==
    pc \in {"once", "twice"} =>
        /\ output = students
        /\ Len(students) = Len(input)
        /\ \A i \in 1..Len(students) :
               /\ \A f \in NonDerivedFields : students[i][f] = input[i][f]
               /\ \A f \in DerivedFields : students[i][f] # Absent

\* a three-record roster has been annotated
C9_Witness ==
    /\ pc = "once"
    /\ Len(students) = 3
    /\ students[1].student_id = IdOf(1) /\ students[3].student_id = IdOf(3)
    /\ students[1].letter_grade = Str(GradeB)
    /\ students[1].is_at_risk = Bool(FALSE)
    /\ input[1].letter_grade = Absent

(***************************************************************************)
(* ingest.load_csv and ingest.read_csv_data over a whole file              *)
(***************************************************************************)
\* the header of the file: column names as written, padded or not
Header == <<K_student_id, <<" ">> \o K_last_name \o <<" ">>, K_quiz1>>

\* the record field a cleaned key names
FieldName(k) ==
    CASE k = K_student_id -> "student_id"
      [] k = K_last_name -> "last_name"
      [] k = K_first_name -> "first_name"
      [] k = K_section -> "section"
      [] k = K_quiz1 -> "quiz1"
      [] k = K_midterm -> "midterm"

\* lines 10-27 on one row.  csv.DictReader pairs the header with the cells:
\* a column without a cell gets None; cells beyond the header are collected
\* in a list under the key None, the last item of the row dict.  float() of
\* that list raises TypeError.
\* Only({e(x) : x \in {v}}) is e(v) with v computed once.
Only(S) == CHOOSE y \in S : TRUE

RECURSIVE CleanItems(_, _, _)
CleanItems(cells, i, clean_row) ==
    IF i > Len(Header)
    THEN IF Len(cells) > Len(Header)
         THEN [row |-> clean_row, raised |-> "TypeError"]
         ELSE [row |-> clean_row, raised |-> ""]
    ELSE Only({IF c.raised # "" THEN [row |-> clean_row, raised |-> c.raised]
               ELSE CleanItems(cells, i + 1,
                               [clean_row EXCEPT ![FieldName(c.key)] = c.value]) :
               c \in {CleanCell(Header[i],
                                IF i <= Len(cells) THEN Str(cells[i]) ELSE None)}})

CleanRow(cells) == CleanItems(cells, 1, BlankRecord)

\* lines 9-33: the loop over the rows; csv.DictReader skips a row without
\* any cell (a blank line).  An exception ends the loop and escapes.
RECURSIVE LoadRows(_, _, _)
LoadRows(rows, i, records) ==
    IF i > Len(rows) THEN [ret |-> records, raised |-> ""]
    ELSE IF rows[i] = <<>> THEN LoadRows(rows, i + 1, records)
    ELSE Only({IF r.raised # "" THEN [ret |-> <<>>, raised |-> r.raised]
               ELSE LoadRows(rows, i + 1, Append(records, r.row)) :
               r \in {CleanRow(rows[i])}})

\* lines 34-36: FileNotFoundError is caught and [] returned
load_csv_raising(file) ==
    IF ~file.exists THEN [ret |-> <<>>, raised |-> "FileNotFoundError"]
    ELSE LoadRows(file.rows, 1, <<>>)

load_csv(file) ==
    IF ~file.exists THEN [ret |-> <<>>, raised |-> ""]
    ELSE LoadRows(file.rows, 1, <<>>)

\* read_csv_data, lines 59-64
read_csv_data_unvalidated(file) == load_csv(file)

read_csv_data(file) ==
    Only({IF data.raised # "" THEN data
          ELSE IF data.ret = <<>> THEN [ret |-> <<>>, raised |-> ""]
          ELSE [ret |-> validate_data(data.ret), raised |-> ""] :
          data \in {load_csv(file)}})

(***************************************************************************)
(* SpecIngest: load_csv and read_csv_data over files of at most MaxRows    *)
(* rows, each with fewer, as many or more cells than the header            *)
(***************************************************************************)
IdCells == {<<"1", "0", "1">>, <<" ", "1", "0", "2", " ">>, <<>>}
NameCells == {<<"R", "e", "y", "e", "s">>}
QuizCells == {<<" ", "8", "0", " ">>, <<"x">>, <<"1", "0", "1">>}
ExtraCells == {<<"5">>}

FileRows ==
    {<<>>}
    \cup {<<a>> : a \in IdCells}
    \cup {<<a, b>> : a \in IdCells, b \in NameCells}
    \cup {<<a, b, c>> : a \in IdCells, b \in NameCells, c \in QuizCells}
    \cup {<<a, b, c, x>> : a \in IdCells, b \in NameCells, c \in QuizCells,
                           x \in ExtraCells}

Files ==
    {[exists |-> FALSE, rows |-> <<>>]}
    \cup {[exists |-> TRUE, rows |-> rows] :
             rows \in UNION {[1..n -> FileRows] : n \in 0..MaxRows}}

NoResult == [ret |-> <<>>, raised |-> ""]

InitIngest ==
    /\ pc = "start"
    /\ input \in Files
    /\ output = NoResult
    /\ students = <<>>
    /\ config = NoConfig
    /\ prev = <<>>

LoadCsv ==
    /\ pc = "start"
    /\ output' = load_csv(input)
    /\ pc' = "loaded"
    /\ UNCHANGED <<input, students, config, prev>>

ReadCsvData ==
    /\ pc = "start"
    /\ output' = read_csv_data(input)
    /\ pc' = "ingested"
    /\ UNCHANGED <<input, students, config, prev>>

NextIngest == LoadCsv \/ ReadCsvData

SpecIngest == InitIngest /\ [][NextIngest]_vars

(***************************************************************************)
(* C11, C12                                                                *)
(***************************************************************************)
\* the rows of the file that hold at least one cell, in file order
RECURSIVE NonBlank(_)
NonBlank(rows) ==
    IF rows = <<>> THEN <<>>
    ELSE (IF Head(rows) = <<>> THEN <<>> ELSE <<Head(rows)>>) \o NonBlank(Tail(rows))

\* C11: load_csv never fails on row content: for rows with malformed cells,
\* missing identity fields, fewer or more cells than the header, it raises
\* nothing and returns one record per row, in input order.
C11_LoadNeverFails ==
    (pc = "loaded" /\ input.exists) =>
        LET rows == NonBlank(input.rows)
        IN  /\ output.raised = ""
            /\ Len(output.ret) = Len(rows)
            /\ \A i \in 1..Len(rows) :
                   output.ret[i].student_id = Str(Strip(rows[i][1]))

\* C12: when the source does not exist load_csv and read_csv_data return an
\* empty list and raise nothing; otherwise read_csv_data gives what
\* validate_data gives on the result of load_csv.
C12_IngestComposes ==
    /\ (pc \in {"loaded", "ingested"} /\ ~input.exists) => output = NoResult
    /\ (pc = "ingested" /\ input.exists) =>
           LET data == load_csv(input)
           IN  /\ output.raised = data.raised
               /\ data.raised = "" =>
                      /\ output.ret = validate_data(data.ret)
                      /\ Len(output.ret) = Cardinality(FirstOccurrences(data.ret))

\* a file with a duplicate id and an empty id has been ingested to one record
C12_Witness ==
    /\ pc = "ingested"
    /\ input.exists
    /\ Len(input.rows) = 2
    /\ Len(load_csv(input).ret) = 2
    /\ Len(output.ret) = 1

(***************************************************************************)
(* analyze._percentile                                                     *)
(***************************************************************************)
\* math.floor and math.ceil
Floor(r) == r.n \div r.d

Ceil(r) == IF r.n % r.d = 0 THEN r.n \div r.d ELSE (r.n \div r.d) + 1

\* lines 37-38: d0 + d1, the two neighbours weighted by the distance of k
\* to the other one
InterpolateSwapped(lo, hi, k, f, c) ==
    RatAdd(RatMul(lo, RatSub(k, Rat(f, 1))), RatMul(hi, RatSub(Rat(c, 1), k)))

Interpolate(lo, hi, k, f, c) ==
    RatAdd(RatMul(lo, RatSub(Rat(c, 1), k)), RatMul(hi, RatSub(k, Rat(f, 1))))

\* sorted_values is a sequence of rationals, indexed from 1 here
Percentile(sorted_values, p) ==
    IF sorted_values = <<>> THEN Rat(0, 1)
    ELSE LET k == Rat((Len(sorted_values) - 1) * p, 100)
             f == Floor(k)
             c == Ceil(k)
         IN  IF f = c THEN Round2(sorted_values[f + 1])
             ELSE Round2(Interpolate(sorted_values[f + 1], sorted_values[c + 1], k, f, c))

(***************************************************************************)
(* SpecPercentile: _percentile over ascending lists of at most MaxValues   *)
(* values                                                                  *)
(***************************************************************************)
\* the final scores of MOCK_TRANSFORMED_RECORDS and a value with three
\* decimals, as a raw column may hold
PercentileValues ==
    {Rat(1234, 1000), Rat(62, 1), Rat(85, 1), Rat(88, 1), Rat(91, 1), Rat(955, 10)}

Ascending(vs) == \A i \in 1..(Len(vs) - 1) : RatLe(vs[i], vs[i + 1])

SortedLists ==
    {vs \in UNION {[1..n -> PercentileValues] : n \in 0..MaxValues} : Ascending(vs)}

\* compute_percentiles lines 49-52 and detect_outliers lines 63-64
PercentileRanks == {25, 50, 75, 90}

InitPercentile ==
    /\ pc = "values"
    /\ input \in [sorted_values : SortedLists, p : PercentileRanks]
    /\ output = Rat(0, 1)
    /\ students = <<>>
    /\ config = NoConfig
    /\ prev = <<>>

PercentileStep ==
    /\ pc = "values"
    /\ output' = Percentile(input.sorted_values, input.p)
    /\ pc' = "ranked"
    /\ UNCHANGED <<input, students, config, prev>>

NextPercentile == PercentileStep

SpecPercentile == InitPercentile /\ [][NextPercentile]_vars

(***************************************************************************)
(* C13                                                                     *)
(***************************************************************************)
\* C13: on a non-empty ascending list of n values _percentile is the linear
\* interpolation at position k = (n-1)*p/100 between the elements at
\* floor(k) and ceil(k), rounded to 2 decimals; when k is a whole number it
\* is the element at index k (rounded to 2 decimals).
C13_Percentile ==
    (pc = "ranked" /\ input.sorted_values # <<>>) =>
        LET vs == input.sorted_values
            pos == (Len(vs) - 1) * input.p
            f == pos \div 100
            frac == pos % 100
        IN  /\ 100 % output.d = 0
            /\ IF frac = 0
               THEN /\ IsRounded2(output, vs[f + 1])
                    /\ 100 % vs[f + 1].d = 0 => output = vs[f + 1]
               ELSE LET lo == vs[f + 1]
                        hi == vs[f + 2]
                        x == RatAdd(lo, RatMul(Rat(frac, 100), RatSub(hi, lo)))
                    IN  IsRounded2(output, x)

\* the 25th percentile of 62.0, 85.0, 88.0, 91.0, 95.5 is 85.0
C13_Witness ==
    /\ pc = "ranked"
    /\ input.sorted_values = <<Rat(62, 1), Rat(85, 1), Rat(88, 1), Rat(91, 1), Rat(955, 10)>>
    /\ input.p = 25
    /\ output = Rat(85, 1)

\* C13 as stated: whenever k is a whole number the result is exactly the
\* element at index k.
C13_ExactElement ==
    (pc = "ranked" /\ input.sorted_values # <<>>) =>
        LET pos == (Len(input.sorted_values) - 1) * input.p
        IN  pos % 100 = 0 => output = input.sorted_values[(pos \div 100) + 1]

(***************************************************************************)
(* analyze.basic_stats, compute_percentiles, detect_outliers               *)
(***************************************************************************)
\* [r[key] for r in rows if isinstance(r.get(key), (int, float))]
RECURSIVE NumericValuesNoneAsZero(_, _)
NumericValuesNoneAsZero(rows, key) ==
    IF rows = <<>> THEN <<>>
    ELSE LET v == Get(Head(rows), key)
         IN  <<RatOf(v)>> \o NumericValuesNoneAsZero(Tail(rows), key)

RECURSIVE NumericValues(_, _)
NumericValues(rows, key) ==
    IF rows = <<>> THEN <<>>
    ELSE LET v == Get(Head(rows), key)
         IN  (IF IsNumber(v) THEN <<RatOf(v)>> ELSE <<>>)
                 \o NumericValues(Tail(rows), key)

\* sorted(): ascending and stable
RECURSIVE InsertAsc(_, _)
InsertAsc(x, sorted) ==
    IF sorted = <<>> THEN <<x>>
    ELSE IF RatLt(x, Head(sorted)) THEN <<x>> \o sorted
    ELSE <<Head(sorted)>> \o InsertAsc(x, Tail(sorted))

RECURSIVE SortAsc(_)
SortAsc(vals) ==
    IF vals = <<>> THEN <<>>
    ELSE InsertAsc(vals[Len(vals)], SortAsc(SubSeq(vals, 1, Len(vals) - 1)))

\* min() and max() of a non-empty list
MinOfFirst(vals) == Head(vals)

RECURSIVE MinOf(_)
MinOf(vals) ==
    IF Len(vals) = 1 THEN vals[1]
    ELSE LET m == MinOf(Tail(vals))
         IN  IF RatLt(m, Head(vals)) THEN m ELSE Head(vals)

RECURSIVE MaxOf(_)
MaxOf(vals) ==
    IF Len(vals) = 1 THEN vals[1]
    ELSE LET m == MaxOf(Tail(vals))
         IN  IF RatLt(Head(vals), m) THEN m ELSE Head(vals)

ZeroStats == [mean |-> Rat(0, 1), min |-> Rat(0, 1), max |-> Rat(0, 1)]

basic_stats(rows, key) ==
    LET values == NumericValues(rows, key)
    IN  IF values = <<>> THEN ZeroStats
        ELSE [mean |-> Round2(Mean(values)),
              min |-> Round2(MinOf(values)),
              max |-> Round2(MaxOf(values))]

ZeroPercentiles == [p25 |-> Rat(0, 1), p50 |-> Rat(0, 1), p75 |-> Rat(0, 1), p90 |-> Rat(0, 1)]

compute_percentiles(rows, key) ==
    LET vals == SortAsc(NumericValues(rows, key))
    IN  IF vals = <<>> THEN ZeroPercentiles
        ELSE [p25 |-> Percentile(vals, 25), p50 |-> Percentile(vals, 50),
              p75 |-> Percentile(vals, 75), p90 |-> Percentile(vals, 90)]

\* line 60: too few values for the IQR method
AnyCount(vals) == FALSE

TooFew(vals) == Len(vals) < 4

\* line 72: strictly outside the bounds
OutsideOrOn(v, lower_bound, upper_bound) ==
    RatLe(v, lower_bound) \/ RatLe(upper_bound, v)

Outside(v, lower_bound, upper_bound) ==
    RatLt(v, lower_bound) \/ RatLt(upper_bound, v)

detect_outliers(rows, key) ==
    LET vals == SortAsc(NumericValues(rows, key))
    IN  IF TooFew(vals) THEN <<>>
        ELSE LET q1 == Percentile(vals, 25)
                 q3 == Percentile(vals, 75)
                 iqr == RatSub(q3, q1)
                 lower_bound == RatSub(q1, RatMul(Rat(3, 2), iqr))
                 upper_bound == RatAdd(q3, RatMul(Rat(3, 2), iqr))
             IN  SelectSeq(rows, LAMBDA r :
                     /\ IsNumber(Get(r, key))
                     /\ Outside(RatOf(Get(r, key)), lower_bound, upper_bound))

(***************************************************************************)
(* SpecStats: the statistics of one field over rosters of at most          *)
(* MaxStatRecords records                                                  *)
(***************************************************************************)
StatKeys == {"final_score", "midterm"}

\* a missing key, a null, and scores with and without more than 2 decimals
StatValues == {Absent, None, Whole(0), Whole(44), Whole(88), Num(Rat(1234, 1000))}

StatRecords(key) == {[BlankRecord EXCEPT ![key] = v] : v \in StatValues}

StatRosters(key) == UNION {[1..n -> StatRecords(key)] : n \in 0..MaxStatRecords}

InitStats ==
    /\ pc = "rows"
    /\ input \in StatKeys
    /\ output = <<>>
    /\ students \in StatRosters(input)
    /\ config = NoConfig
    /\ prev = <<>>

BasicStats ==
    /\ pc = "rows"
    /\ output' = basic_stats(students, input)
    /\ pc' = "stats"
    /\ UNCHANGED <<input, students, config, prev>>

ComputePercentiles ==
    /\ pc = "rows"
    /\ output' = compute_percentiles(students, input)
    /\ pc' = "percentiles"
    /\ UNCHANGED <<input, students, config, prev>>

DetectOutliers ==
    /\ pc = "rows"
    /\ output' = detect_outliers(students, input)
    /\ pc' = "outliers"
    /\ UNCHANGED <<input, students, config, prev>>

NextStats == BasicStats \/ ComputePercentiles \/ DetectOutliers

SpecStats == InitStats /\ [][NextStats]_vars

(***************************************************************************)
(* C14, C15, C16                                                           *)
(***************************************************************************)
\* the positions of the roster holding a non-null numeric value of the field
ValidAt == {i \in 1..Len(students) : students[i][input].t = "num"}

ValueAt(i) == RatOf(students[i][input])

\* the valid positions in roster order
NumericAt == SelectSeq([i \in 1..Len(students) |-> i], LAMBDA i : i \in ValidAt)

\* C14: with fewer than 4 non-null numeric values of the field
\* detect_outliers returns the empty list, whatever the values.
C14_TooFewValues ==
    (pc = "outliers" /\ Cardinality(ValidAt) < 4) => output = <<>>

\* three values, one of them far from the others, and no outlier reported
C14_Witness ==
    /\ pc = "outliers"
    /\ Cardinality(ValidAt) = 3
    /\ \E i \in ValidAt : ValueAt(i) = Rat(1234, 1000)
    /\ \E i \in ValidAt : ValueAt(i) = Rat(88, 1)
    /\ output = <<>>

\* v is the p-th percentile of the valid values: the rounded interpolation
\* between the values of rank floor(k) and floor(k)+1, k = (n-1)*p/100,
\* where the value of rank j has at most j values strictly below it and
\* more than j values at or below it
RankIs(i, j) ==
    /\ Cardinality({m \in ValidAt : RatLt(ValueAt(m), ValueAt(i))}) <= j
    /\ Cardinality({m \in ValidAt : RatLe(ValueAt(m), ValueAt(i))}) > j

Quantile(p) ==
    LET pos == (Cardinality(ValidAt) - 1) * p
        f == pos \div 100
        frac == pos % 100
        lo == ValueAt(CHOOSE i \in ValidAt : RankIs(i, f))
        hi == IF frac = 0 THEN lo ELSE ValueAt(CHOOSE i \in ValidAt : RankIs(i, f + 1))
    IN  Round2(RatAdd(lo, RatMul(Rat(frac, 100), RatSub(hi, lo))))

LowerFence == RatSub(Quantile(25), RatMul(Rat(3, 2), RatSub(Quantile(75), Quantile(25))))

UpperFence == RatAdd(Quantile(75), RatMul(Rat(3, 2), RatSub(Quantile(75), Quantile(25))))

IsOutlier(i) ==
    /\ i \in ValidAt
    /\ RatLt(ValueAt(i), LowerFence) \/ RatLt(UpperFence, ValueAt(i))

RECURSIVE Picked(_, _)
Picked(rows, i) ==
    IF i > Len(rows) THEN <<>>
    ELSE (IF IsOutlier(i) THEN <<rows[i]>> ELSE <<>>) \o Picked(rows, i + 1)

\* C15: with at least 4 non-null values detect_outliers returns, in input
\* order, exactly the records whose value is non-null and strictly below
\* Q1 - 1.5*IQR or strictly above Q3 + 1.5*IQR; values on a bound and null
\* values are never returned.
C15_Outliers ==
    (pc = "outliers" /\ Cardinality(ValidAt) >= 4) =>
        /\ output = Picked(students, 1)
        /\ \A k \in 1..Len(output) :
               /\ output[k][input].t = "num"
               /\ RatOf(output[k][input]) # LowerFence
               /\ RatOf(output[k][input]) # UpperFence

\* 0, 88, 88, 88 and a null: Q1 = 66, Q3 = 88, the fences are 33 and 121 and
\* only the record with 0 is returned
C15_Witness ==
    /\ pc = "outliers"
    /\ Cardinality(ValidAt) = 4
    /\ Len(students) = 5
    /\ LowerFence = Rat(33, 1)
    /\ Len(output) = 1
    /\ output[1][input] = Whole(0)

\* C16: basic_stats and compute_percentiles use only the non-null numeric
\* values of the field and return the all-zero result when there is none.
C16_StatsOverValidValues ==
    /\ pc = "stats" =>
           IF ValidAt = {}
           THEN output = [mean |-> Rat(0, 1), min |-> Rat(0, 1), max |-> Rat(0, 1)]
           ELSE /\ \E i \in ValidAt :
                       /\ \A m \in ValidAt : RatLe(ValueAt(i), ValueAt(m))
                       /\ output.min = Round2(ValueAt(i))
                /\ \E i \in ValidAt :
                       /\ \A m \in ValidAt : RatLe(ValueAt(m), ValueAt(i))
                       /\ output.max = Round2(ValueAt(i))
                /\ IsRounded2(output.mean,
                              RatMul(RatSum([k \in 1..Len(NumericAt) |-> ValueAt(NumericAt[k])]),
                                     Rat(1, Cardinality(ValidAt))))
    /\ pc = "percentiles" =>
           IF ValidAt = {}
           THEN output = [p25 |-> Rat(0, 1), p50 |-> Rat(0, 1), p75 |-> Rat(0, 1), p90 |-> Rat(0, 1)]
           ELSE output = [p25 |-> Quantile(25), p50 |-> Quantile(50),
                          p75 |-> Quantile(75), p90 |-> Quantile(90)]

\* every value of the field is null or missing and the statistics are all zero
C16_Witness ==
    /\ pc = "stats"
    /\ Len(students) = 2
    /\ students[1][input] = None
    /\ students[2][input] = Absent
    /\ output.mean = Rat(0, 1)
    /\ output.min = Rat(0, 1)
    /\ output.max = Rat(0, 1)

(***************************************************************************)
(* C17, C18 (SpecScore), C19 (SpecGrade)                                   *)
(***************************************************************************)
\* every weight entry finds a component value: the quiz average, or a
\* non-null midterm, final or attendance
AllWeightedPresent(record, grade_weights) ==
    \A k \in WeightKeys(grade_weights) :
        \/ k = "quiz"
        \/ k \in ComponentKeys \ {"quiz"} /\ ~IsNull(record[FieldOf(k)])

\* every value a component may take lies in [0,100]
ComponentsInRange(record) ==
    \A f \in {"quiz1", "quiz2", "quiz3", "quiz4", "quiz5",
              "midterm", "final", "attendance_percent"} :
        IsNumber(record[f]) =>
            RatLe(Rat(0, 1), RatOf(record[f])) /\ RatLe(RatOf(record[f]), Rat(100, 1))

InZeroToHundred(v) ==
    /\ v.t = "num"
    /\ RatLe(Rat(0, 1), RatOf(v))
    /\ RatLe(RatOf(v), Rat(100, 1))

\* C17 as stated: with all weighted components present and in [0,100] the
\* final score is in [0,100], for every weights mapping.
C17_InRangeAnyWeights ==
    (pc = "scored" /\ AllWeightedPresent(input.record, input.grade_weights)
                   /\ ComponentsInRange(input.record)) =>
        InZeroToHundred(output)

WeightTotal(grade_weights) ==
    RatSum([i \in 1..Len(grade_weights) |-> RatOf(grade_weights[i].weight)])

NormalWeights(grade_weights) ==
    /\ \A i \in 1..Len(grade_weights) : grade_weights[i].weight.n >= 0
    /\ RatLe(WeightTotal(grade_weights), Rat(1, 1))

\* C17: with all weighted components present and in [0,100] the final score
\* is in [0,100], for every mapping of non-negative weights that sum to at
\* most 1.
C17_InRangeNormalWeights ==
    (pc = "scored" /\ AllWeightedPresent(input.record, input.grade_weights)
                   /\ ComponentsInRange(input.record)
                   /\ NormalWeights(input.grade_weights)) =>
        InZeroToHundred(output)

\* weights that sum to exactly 1 over a complete record: 88.5
C17_Witness ==
    /\ pc = "scored"
    /\ input.grade_weights = <<MockWeights[4], MockWeights[3], MockWeights[2], MockWeights[1]>>
    /\ WeightTotal(input.grade_weights) = Rat(1, 1)
    /\ AllWeightedPresent(input.record, input.grade_weights)
    /\ ComponentsInRange(input.record)
    /\ output = Hun(8850)

\* C18: only the components named in the weights are consulted: the result
\* is None exactly when a known weighted component is null, a component
\* without weight is never looked at, and a weight entry for an unknown
\* component is ignored (the result is the weighted sum over the known
\* entries).
C18_OnlyWeightedConsulted ==
    pc = "scored" =>
        LET known == WeightKeys(input.grade_weights) \cap ComponentKeys
        IN  /\ output = None <=>
                   \E k \in known \ {"quiz"} : IsNull(input.record[FieldOf(k)])
            /\ output # None =>
                   /\ output.t = "num"
                   /\ IsRounded2(RatOf(output),
                                 WeightedSum(input.record, input.grade_weights))

ThresholdIn(scale, label) ==
    RatOf((CHOOSE e \in EntriesOf(scale) : e.grade = label).threshold)

Labels(scale) == {e.grade : e \in EntriesOf(scale)}

\* C19: get_letter_grade is monotone: for non-null scores s1 <= s2 the
\* threshold of the grade returned for s1 is at most the threshold of the
\* grade returned for s2 (stated where both grades are labels of the scale).
C19_Monotone ==
    (pc = "graded" /\ input.score # None) =>
        \A s1 \in GradeScores \ {None} :
            LET g1 == get_letter_grade(s1, input.grading_scale)
            IN  (/\ RatLe(RatOf(s1), RatOf(input.score))
                 /\ g1 \in Labels(input.grading_scale)
                 /\ output \in Labels(input.grading_scale)) =>
                    RatLe(ThresholdIn(input.grading_scale, g1),
                          ThresholdIn(input.grading_scale, output))

(***************************************************************************)
(* compare_section.compare_section_performance                             *)
(***************************************************************************)
DigitChar(k) == CHOOSE c \in Digits : DigitVal(c) = k

\* the decimal digits of a natural number
RECURSIVE NatChars(_)
NatChars(k) == IF k < 10 THEN <<DigitChar(k)>> ELSE NatChars(k \div 10) \o <<DigitChar(k % 10)>>

\* f"{x:.2f}": x rounded to 2 decimals, written with a sign, the whole part,
\* a point and two digits
Format2(x) ==
    LET r == Round2(Rat(Abs(x.n), x.d))
        h == (r.n * 100) \div r.d
    IN  (IF x.n < 0 THEN <<"-">> ELSE <<>>)
            \o NatChars(h \div 100) \o <<".">>
            \o <<DigitChar((h \div 10) % 10), DigitChar(h % 10)>>

\* line 25: str(r.get("section", "Unknown"))
SectionOf(r) ==
    CASE r.section.t = "absent" -> <<"U", "n", "k", "n", "o", "w", "n">>
      [] r.section.t = "none" -> <<"N", "o", "n", "e">>
      [] OTHER -> r.section.s

\* lines 24-28: sections.setdefault(sec, []).append(score), a dict in
\* insertion order, as a sequence of [sec, scores]
AppendScore(sections, sec, score) ==
    IF \E i \in 1..Len(sections) : sections[i].sec = sec
    THEN [i \in 1..Len(sections) |->
             IF sections[i].sec = sec
             THEN [sections[i] EXCEPT !.scores = Append(@, score)]
             ELSE sections[i]]
    ELSE Append(sections, [sec |-> sec, scores |-> <<score>>])

RECURSIVE GroupBySection(_, _, _)
GroupBySection(rows, i, sections) ==
    IF i > Len(rows) THEN sections
    ELSE LET score == Get(rows[i], "final_score")
         IN  GroupBySection(rows, i + 1,
                 IF IsNumber(score)
                 THEN AppendScore(sections, SectionOf(rows[i]), RatOf(score))
                 ELSE sections)

\* statistics.median: the middle value, or the mean of the two middle values
Median(scores) ==
    LET sorted == SortAsc(scores)
        n == Len(sorted)
    IN  IF n % 2 = 1 THEN sorted[(n \div 2) + 1]
        ELSE RatMul(RatAdd(sorted[n \div 2], sorted[(n \div 2) + 1]), Rat(1, 2))

Occurrences(scores, v) == Cardinality({i \in 1..Len(scores) : scores[i] = v})

NoUniqueMode ==
    <<"N", "/", "A", " ", "(", "n", "o", " ", "u", "n", "i", "q", "u", "e", " ",
      "m", "o", "d", "e", ")">>

\* statistics.mode (Python 3.8 and later): the most frequent value, the
\* first one encountered among several; StatisticsError only for no data
ModeLast(scores) ==
    scores[CHOOSE i \in 1..Len(scores) :
        /\ \A j \in 1..Len(scores) :
               Occurrences(scores, scores[j]) <= Occurrences(scores, scores[i])
        /\ \A j \in (i + 1)..Len(scores) :
               Occurrences(scores, scores[j]) < Occurrences(scores, scores[i])]

Mode(scores) ==
    scores[CHOOSE i \in 1..Len(scores) :
        /\ \A j \in 1..Len(scores) :
               Occurrences(scores, scores[j]) <= Occurrences(scores, scores[i])
        /\ \A j \in 1..(i - 1) :
               Occurrences(scores, scores[j]) < Occurrences(scores, scores[i])]

\* lines 37-41
ModeVal(scores) == IF scores = <<>> THEN NoUniqueMode ELSE Format2(Mode(scores))

\* lines 43-50
SectionStats(sec, scores) ==
    [section |-> sec,
     count |-> Len(scores),
     average |-> Format2(Mean(scores)),
     median |-> Format2(Median(scores)),
     mode |-> ModeVal(scores),
     highest |-> Format2(MaxOf(scores)),
     lowest |-> Format2(MinOf(scores))]

\* the result dict in insertion order, as a sequence of entries
compare_section_performance(rows) ==
    LET sections == GroupBySection(rows, 1, <<>>)
        kept == SelectSeq(sections, LAMBDA g : g.scores # <<>>)
    IN  [i \in 1..Len(kept) |-> SectionStats(kept[i].sec, kept[i].scores)]

(***************************************************************************)
(* analyze.section_summary                                                 *)
(***************************************************************************)
\* line 88: r.get("section", "Unknown"), the dict key of the record
SummaryKey(r) ==
    IF r.section.t = "absent" THEN Str(<<"U", "n", "k", "n", "o", "w", "n">>)
    ELSE r.section

\* line 90: isinstance(score, (int, float))
ScoredOrNull(score) == TRUE

Scored(score) == IsNumber(score)

\* lines 87-91
RECURSIVE GroupScores(_, _, _)
GroupScores(rows, i, sections) ==
    IF i > Len(rows) THEN sections
    ELSE LET score == Get(rows[i], "final_score")
         IN  GroupScores(rows, i + 1,
                 IF Scored(score)
                 THEN AppendScore(sections, SummaryKey(rows[i]), RatOf(score))
                 ELSE sections)

\* lines 93-97: the summary dict in insertion order
section_summary(rows) ==
    LET sections == GroupScores(rows, 1, <<>>)
    IN  [i \in 1..Len(sections) |->
            [section |-> sections[i].sec,
             mean |-> IF sections[i].scores # <<>>
                      THEN Round2(Mean(sections[i].scores))
                      ELSE Rat(0, 1)]]

(***************************************************************************)
(* SpecCompare: compare_section_performance over rosters of at most        *)
(* MaxSectionRecords records                                               *)
(***************************************************************************)
Section1B == Str(<<"B", "S", "I", "T", "-", "1", "B">>)

SectionRecords ==
    {[BlankRecord EXCEPT !.section = sec, !.final_score = v] :
        sec \in {Section1A, Section1B, Absent},
        v \in {None, Whole(85), Whole(88), Hun(9550)}}

SectionRosters == UNION {[1..n -> SectionRecords] : n \in 0..MaxSectionRecords}

InitCompare ==
    /\ pc = "rows"
    /\ input = <<>>
    /\ output = <<>>
    /\ students \in SectionRosters
    /\ config = NoConfig
    /\ prev = <<>>

CompareSectionPerformance ==
    /\ pc = "rows"
    /\ output' = compare_section_performance(students)
    /\ pc' = "compared"
    /\ UNCHANGED <<input, students, config, prev>>

SectionSummary ==
    /\ pc = "rows"
    /\ output' = section_summary(students)
    /\ pc' = "summarised"
    /\ UNCHANGED <<input, students, config, prev>>

NextCompare == CompareSectionPerformance \/ SectionSummary

SpecCompare == InitCompare /\ [][NextCompare]_vars

(***************************************************************************)
(* C20                                                                     *)
(***************************************************************************)
\* the positions of the roster with a numeric final score in section sec
ScoredIn(sec) ==
    {i \in 1..Len(students) :
        /\ students[i].final_score.t = "num"
        /\ students[i].section = sec}

TimesIn(sec, v) == Cardinality({i \in ScoredIn(sec) : students[i].final_score = v})

\* two or more distinct scores of the section tie for the highest frequency
NoUniqueModeIn(sec) ==
    \E i, j \in ScoredIn(sec) :
        /\ students[i].final_score # students[j].final_score
        /\ TimesIn(sec, students[i].final_score) = TimesIn(sec, students[j].final_score)
        /\ \A m \in ScoredIn(sec) :
               TimesIn(sec, students[m].final_score) <= TimesIn(sec, students[i].final_score)

\* C20: when the final scores of a section have no unique mode, the mode
\* field of the section is the "no unique mode" marker and not one of the
\* tied values.
C20_NoUniqueModeMarker ==
    pc = "compared" =>
        \A sec \in {Section1A, Section1B} :
            NoUniqueModeIn(sec) =>
                \E k \in 1..Len(output) :
                    /\ output[k].section = sec.s
                    /\ output[k].mode = NoUniqueMode

(***************************************************************************)
(* C21, C22                                                                *)
(***************************************************************************)
\* the dict key of a section value: str() of it, "Unknown" without the key
KeyOf(sec) == IF sec = Absent THEN <<"U", "n", "k", "n", "o", "w", "n">> ELSE sec.s

SectionValues == {Section1A, Section1B, Absent}

\* cs reads as a number with exactly two decimals
TwoDecimals(cs) ==
    /\ Len(cs) >= 4
    /\ cs[Len(cs) - 2] = "."
    /\ AllDigits(cs, 1, Len(cs) - 3)
    /\ AllDigits(cs, Len(cs) - 1, Len(cs))

\* the number a two-decimal text denotes
TextValue(cs) ==
    Rat(100 * DecValue(cs, 1, Len(cs) - 3) + DecValue(cs, Len(cs) - 1, Len(cs)), 100)

EntriesFor(sec) == {k \in 1..Len(output) : output[k].section = KeyOf(sec)}

C22_SectionEntries ==
    pc = "compared" =>
        /\ \A sec \in SectionValues :
               Cardinality(EntriesFor(sec)) = IF ScoredIn(sec) # {} THEN 1 ELSE 0
        /\ \A k \in 1..Len(output) :
               /\ \E sec \in SectionValues : k \in EntriesFor(sec)
               /\ {"count", "average", "median", "mode", "highest", "lowest"}
                      \subseteq DOMAIN output[k]
        /\ \A sec \in SectionValues : \A k \in EntriesFor(sec) :
               LET e == output[k]
                   scores == {RatOf(students[i].final_score) : i \in ScoredIn(sec)}
               IN  /\ e.count = Cardinality(ScoredIn(sec))
                   /\ \A f \in {"average", "median", "highest", "lowest"} : TwoDecimals(e[f])
                   /\ TextValue(e.highest) \in scores
                   /\ \A x \in scores : RatLe(x, TextValue(e.highest))
                   /\ TextValue(e.lowest) \in scores
                   /\ \A x \in scores : RatLe(TextValue(e.lowest), x)
                   /\ RatLe(TextValue(e.lowest), TextValue(e.median))
                   /\ RatLe(TextValue(e.median), TextValue(e.highest))
                   /\ RatLe(TextValue(e.lowest), TextValue(e.average))
                   /\ RatLe(TextValue(e.average), TextValue(e.highest))

\* one section with three scored records and a record without score, one
\* section whose only record has no score: a single entry
C22_Witness ==
    /\ pc = "compared"
    /\ Cardinality(ScoredIn(Section1A)) = 3
    /\ \E i \in 1..Len(students) :
           students[i].section = Section1B /\ students[i].final_score = None
    /\ ScoredIn(Section1B) = {}
    /\ Len(output) = 1
    /\ output[1].count = 3
    /\ output[1].lowest = <<"8", "5", ".", "0", "0">>
    /\ output[1].highest = <<"9", "5", ".", "5", "0">>

(***************************************************************************)
(* C23                                                                     *)
(***************************************************************************)
SummaryFor(sec) == {k \in 1..Len(output) : output[k].section = Str(KeyOf(sec))}

\* C23: section_summary has a key for exactly the sections with a record
\* that has a numeric final_score, and the mean of a section is the
\* arithmetic mean of that section's numeric final scores, rounded to 2
\* decimals.
C23_SectionSummary ==
    pc = "summarised" =>
        /\ \A sec \in SectionValues :
               Cardinality(SummaryFor(sec)) = IF ScoredIn(sec) # {} THEN 1 ELSE 0
        /\ \A k \in 1..Len(output) : \E sec \in SectionValues : k \in SummaryFor(sec)
        /\ \A sec \in SectionValues : \A k \in SummaryFor(sec) :
               LET at == SelectSeq([i \in 1..Len(students) |-> i],
                                   LAMBDA i : i \in ScoredIn(sec))
                   total == RatSum([n \in 1..Len(at) |-> RatOf(students[at[n]].final_score)])
               IN  IsRounded2(output[k].mean, RatMul(total, Rat(1, Len(at))))

\* a section with the scores 95.5 and 85.0 and a record without score has
\* the mean 90.25; a section with only an unscored record has no key
C23_Witness ==
    /\ pc = "summarised"
    /\ Len(students) = 4
    /\ students[1].section = Section1A /\ students[1].final_score = Hun(9550)
    /\ students[2].section = Section1A /\ students[2].final_score = None
    /\ students[3].section = Section1B /\ students[3].final_score = None
    /\ students[4].section = Section1A /\ students[4].final_score = Whole(85)
    /\ Len(output) = 1
    /\ output[1].mean = Rat(9025, 100)

(***************************************************************************)
(* C26 (SpecTransform)                                                     *)
(***************************************************************************)
\* C26: after transform_records every record has letter_grade "N/A" exactly
\* when its final_score is None, and is_at_risk True only with a non-null
\* final_score strictly below the configured threshold (the scales define
\* no label "N/A").
C26_AnnotationInvariant ==
    pc \in {"once", "twice"} =>
        \A i \in 1..Len(students) :
            /\ students[i].letter_grade = Str(GradeNA) <=> students[i].final_score = None
            /\ students[i].is_at_risk \in {Bool(TRUE), Bool(FALSE)}
            /\ students[i].is_at_risk = Bool(TRUE) =>
                   /\ students[i].final_score.t = "num"
                   /\ RatLt(RatOf(students[i].final_score),
                            RatOf(IF config.at_risk_grade = Absent THEN Whole(65)
                                  ELSE config.at_risk_grade))

\* one record without score is "N/A" and not at risk, one record with the
\* score 70.5 is below the threshold 85 and at risk
C26_Witness ==
    /\ pc = "once"
    /\ config.at_risk_grade = Whole(85)
    /\ \E i \in 1..Len(students) :
           /\ students[i].final_score = None
           /\ students[i].letter_grade = Str(GradeNA)
           /\ students[i].is_at_risk = Bool(FALSE)
    /\ \E i \in 1..Len(students) :
           /\ students[i].final_score.t = "num"
           /\ students[i].letter_grade # Str(GradeNA)
           /\ students[i].is_at_risk = Bool(TRUE)

(***************************************************************************)
(* The operations called on a roster: what they return, the exception      *)
(* that escapes them, and the roster they leave                            *)
(***************************************************************************)
\* a call that returns ret; no statement of the statistics functions
\* assigns to rows or to a record of rows
QueryReversing(ret, rows) ==
    [ret |-> ret, raised |-> "",
     rows |-> [i \in 1..Len(rows) |-> rows[Len(rows) + 1 - i]]]

Query(ret, rows) == [ret |-> ret, raised |-> "", rows |-> rows]

\* a call that an exception leaves before any record is written
Raise(exception, rows) == [ret |-> <<>>, raised |-> exception, rows |-> rows]

\* str < float raises TypeError; the comparison is reached with the value
\* of `r.get("final_score") or 0`, that is with a non-empty string
call_at_risk_students(rows, threshold) ==
    IF \E i \in 1..Len(rows) :
           Get(rows[i], "final_score").t = "str" /\ Truthy(Get(rows[i], "final_score"))
    THEN Raise("TypeError", rows)
    ELSE Query(at_risk_students(rows, threshold), rows)

\* transform.py line 62: `final_score is not None and final_score < threshold`
\* compares any string with the threshold; otherwise record i is written
call_set_risk_status(rows, i, threshold) ==
    IF Get(rows[i], "final_score").t = "str"
    THEN Raise("TypeError", rows)
    ELSE [ret |-> None, raised |-> "",
          rows |-> [rows EXCEPT ![i] = set_risk_status(rows[i], threshold)]]

\* transform_records returns the list it was given, every record annotated
call_transform_records(rows, cfg) ==
    Only({[ret |-> done, raised |-> "", rows |-> done] :
          done \in {transform_records(rows, cfg)}})

(***************************************************************************)
(* SpecPipeline: a roster of at most MaxPipeRecords records of any content,*)
(* transformed or not, then queried by one of the statistics operations    *)
(***************************************************************************)
Text == Str(<<"a", "b", "c">>)

\* numeric, null, missing and string fields
ContentRecords ==
    {[BlankRecord EXCEPT !.section = sec, !.midterm = m, !.final_score = fs] :
        sec \in {Section1A, Absent},
        m \in {None, Whole(0), Whole(60), Whole(80), Text},
        fs \in {Absent, Text}}

ContentRosters == UNION {[1..n -> ContentRecords] : n \in 0..MaxPipeRecords}

\* the midterm alone is weighted: the final score is 0.30 * midterm
PipelineConfigs ==
    [grade_weights : {<<MockWeights[2]>>},
     grading_scale : {MockScale},
     at_risk_grade : {Whole(0), Whole(20)}]

InitPipeline ==
    /\ pc = "rows"
    /\ input = ""
    /\ output = NoResult
    /\ students \in ContentRosters
    /\ config \in PipelineConfigs
    /\ prev = <<>>

\* one call: its result and exception in output, the roster it leaves in
\* students, the roster it was given in prev
Called(name, call, next) ==
    /\ input' = name
    /\ prev' = students
    /\ output' = [ret |-> call.ret, raised |-> call.raised]
    /\ students' = call.rows
    /\ pc' = next
    /\ UNCHANGED config

PipeTransform ==
    /\ pc = "rows"
    /\ \E call \in {call_transform_records(students, config)} :
           Called("transform_records", call, "transformed")

PipeSetRiskStatus ==
    /\ pc = "rows"
    /\ \E i \in 1..Len(students) :
           \E call \in {call_set_risk_status(students, i, AtRiskThreshold(config))} :
               Called("set_risk_status", call, "flagged")

PipeBasicStats ==
    /\ pc \in {"rows", "transformed"}
    /\ \E call \in {Query(basic_stats(students, "final_score"), students)} :
           Called("basic_stats", call, "queried")

PipePercentiles ==
    /\ pc \in {"rows", "transformed"}
    /\ \E call \in {Query(compute_percentiles(students, "final_score"), students)} :
           Called("compute_percentiles", call, "queried")

PipeOutliers ==
    /\ pc \in {"rows", "transformed"}
    /\ \E call \in {Query(detect_outliers(students, "final_score"), students)} :
           Called("detect_outliers", call, "queried")

PipeAtRisk ==
    /\ pc \in {"rows", "transformed"}
    /\ \E call \in {call_at_risk_students(students, AtRiskThreshold(config))} :
           Called("at_risk_students", call, "queried")

PipeSectionSummary ==
    /\ pc \in {"rows", "transformed"}
    /\ \E call \in {Query(section_summary(students), students)} :
           Called("section_summary", call, "queried")

PipeCompare ==
    /\ pc \in {"rows", "transformed"}
    /\ \E call \in {Query(compare_section_performance(students), students)} :
           Called("compare_section_performance", call, "queried")

NextPipeline ==
    \/ PipeTransform
    \/ PipeSetRiskStatus
    \/ PipeBasicStats
    \/ PipePercentiles
    \/ PipeOutliers
    \/ PipeAtRisk
    \/ PipeSectionSummary
    \/ PipeCompare

SpecPipeline == InitPipeline /\ [][NextPipeline]_vars

(***************************************************************************)
(* C24, C25, C27                                                           *)
(***************************************************************************)
\* C24: no exception escapes an operation of the transformer or of the
\* statistics, whatever the content of the records.
C24_NoExceptionEscapes ==
    pc \in {"transformed", "flagged", "queried"} => output.raised = ""

\* C25: the statistics operations leave the record list as it was given:
\* same length, same order, every field of every record; a roster that
\* differs from the one given was written by transform_records (or by its
\* step set_risk_status).
C25_QueriesArePure ==
    /\ pc = "queried" => students = prev
    /\ (pc # "rows" /\ students # prev) =>
           input \in {"transform_records", "set_risk_status"}

\* at_risk_students has listed a record of a transformed roster and the
\* roster is as it was
C25_Witness ==
    /\ pc = "queried"
    /\ input = "at_risk_students"
    /\ Len(students) = 2
    /\ students[1].is_at_risk = Bool(TRUE)
    /\ students[2].is_at_risk = Bool(FALSE)
    /\ output.ret = <<students[1]>>
    /\ students = prev

Transformed(rows) == \A i \in 1..Len(rows) : rows[i].is_at_risk # Absent

\* C27: on transformed records and with the threshold t of the
\* transformation, at_risk_students lists a record exactly when its
\* is_at_risk flag is True, or its final_score is null and t > 0.
C27_FilterAgreesWithFlag ==
    (pc = "queried" /\ input = "at_risk_students" /\ Transformed(prev)) =>
        LET t == RatOf(config.at_risk_grade)
        IN  /\ output.raised = ""
            /\ output.ret = SelectSeq(prev, LAMBDA r :
                   \/ r.is_at_risk = Bool(TRUE)
                   \/ r.final_score = None /\ RatLt(Rat(0, 1), t))

\* threshold 20: a record with the score 0 is flagged and listed, a record
\* without score is not flagged but listed
C27_Witness ==
    /\ pc = "queried"
    /\ input = "at_risk_students"
    /\ config.at_risk_grade = Whole(20)
    /\ Len(prev) = 2
    /\ prev[1].final_score = Whole(0) /\ prev[1].is_at_risk = Bool(TRUE)
    /\ prev[2].final_score = None /\ prev[2].is_at_risk = Bool(FALSE)
    /\ output.ret = prev

(***************************************************************************)
(* C30 (SpecStats)                                                         *)
(***************************************************************************)
\* the percentiles lie in order between the rounded minimum and maximum
PercentilesOrdered ==
    (pc = "percentiles" /\ ValidAt # {}) =>
        \E lo, hi \in ValidAt :
            /\ \A m \in ValidAt : RatLe(ValueAt(lo), ValueAt(m)) /\ RatLe(ValueAt(m), ValueAt(hi))
            /\ RatLe(Round2(ValueAt(lo)), output.p25)
            /\ RatLe(output.p25, output.p50)
            /\ RatLe(output.p50, output.p75)
            /\ RatLe(output.p75, output.p90)
            /\ RatLe(output.p90, Round2(ValueAt(hi)))

\* with all values equal no record is an outlier
EqualValuesNoOutlier ==
    (pc = "outliers" /\ \A i, j \in ValidAt : ValueAt(i) = ValueAt(j)) => output = <<>>

\* C30: for a non-empty set of non-null values min <= 25th <= 50th <= 75th
\* <= 90th <= max, so that the IQR is not negative, and when all values are
\* equal detect_outliers returns no record.
C30_OrderedAndBounded ==
    /\ PercentilesOrdered
    /\ (pc = "outliers" /\ Cardinality(ValidAt) >= 4) => RatLe(Quantile(25), Quantile(75))
    /\ EqualValuesNoOutlier

(***************************************************************************)
(* menu.add_student, delete_student, sort_students_menu, run_full_report   *)
(***************************************************************************)
\* the characters of the model in code point order
Ascii ==
    <<" ", "-", "0", "1", "2", "3", "4", "5", "6", "7", "8", "9",
      "A", "B", "I", "L", "R", "S", "T", "_",
      "a", "b", "e", "i", "l", "m", "n", "r", "s", "t", "y">>

CodeOf(c) == CHOOSE i \in 1..Len(Ascii) : Ascii[i] = c

\* str.lower() on one character
LowerChar(c) ==
    CASE c = "A" -> "a" [] c = "B" -> "b" [] c = "I" -> "i" [] c = "L" -> "l"
      [] c = "R" -> "r" [] c = "S" -> "s" [] c = "T" -> "t" [] OTHER -> c

Lower(cs) == [i \in 1..Len(cs) |-> LowerChar(cs[i])]

\* a < b for strings: the first differing character decides, a proper
\* prefix is smaller
RECURSIVE StrLt(_, _)
StrLt(a, b) ==
    IF b = <<>> THEN FALSE
    ELSE IF a = <<>> THEN TRUE
    ELSE IF Head(a) # Head(b) THEN CodeOf(Head(a)) < CodeOf(Head(b))
    ELSE StrLt(Tail(a), Tail(b))

\* s.get(field, default) of a string field
TextOf(s, field, default) == IF s[field].t = "str" THEN s[field].s ELSE default

\* line 153: s.get('final_score', -1) or -1
GradeKey(s) ==
    IF s.final_score.t = "absent" THEN Rat(-1, 1)
    ELSE IF Truthy(s.final_score) THEN RatOf(s.final_score)
    ELSE Rat(-1, 1)

\* a goes before b under the sort of the choice: lines 141, 145, 153
GoesBefore(a, b, choice) ==
    CASE choice = "1" ->
             LET la == Lower(TextOf(a, "last_name", <<>>))
                 lb == Lower(TextOf(b, "last_name", <<>>))
             IN  \/ StrLt(la, lb)
                 \/ la = lb /\ StrLt(Lower(TextOf(a, "first_name", <<>>)),
                                     Lower(TextOf(b, "first_name", <<>>)))
      [] choice = "2" ->
             StrLt(TextOf(a, "student_id", <<"0">>), TextOf(b, "student_id", <<"0">>))
      [] OTHER -> RatLt(GradeKey(b), GradeKey(a))

\* list.sort is stable: a record goes behind the records it does not go
\* before
RECURSIVE InsertStable(_, _, _)
InsertStable(x, sorted, choice) ==
    IF sorted = <<>> THEN <<x>>
    ELSE IF GoesBefore(x, Head(sorted), choice) THEN <<x>> \o sorted
    ELSE <<Head(sorted)>> \o InsertStable(x, Tail(sorted), choice)

RECURSIVE SortStable(_, _)
SortStable(rows, choice) ==
    IF rows = <<>> THEN <<>>
    ELSE InsertStable(rows[Len(rows)],
                      SortStable(SubSeq(rows, 1, Len(rows) - 1), choice), choice)

\* lines 140-160
sort_students_menu(students_list, cfg, choice) ==
    IF choice \in {"1", "2"} THEN SortStable(students_list, choice)
    ELSE IF choice = "3"
    THEN SortStable(IF students_list = <<>> \/ students_list[1].final_score = Absent
                    THEN transform_records(students_list, cfg)
                    ELSE students_list, choice)
    ELSE students_list

\* line 86: any(s.get('student_id') == student_id for s in students_list)
IdNeverTaken(students_list, student_id) == FALSE

IdTaken(students_list, student_id) ==
    \E i \in 1..Len(students_list) :
        Get(students_list[i], "student_id") = Str(student_id)

\* lines 95-104
NewStudent(student_id, last_name, first_name, section) ==
    [BlankRecord EXCEPT !.student_id = Str(student_id), !.last_name = Str(last_name),
                        !.first_name = Str(first_name), !.section = Str(section),
                        !.quiz1 = None, !.quiz2 = None, !.quiz3 = None,
                        !.quiz4 = None, !.quiz5 = None, !.midterm = None,
                        !.final = None, !.attendance_percent = None]

\* lines 117-128: the first record with the id is removed, if there is one
delete_student(students_list, typed) ==
    LET student_id == Strip(typed)
        found == {i \in 1..Len(students_list) :
                     Get(students_list[i], "student_id") = Str(student_id)}
    IN  IF found = {} THEN students_list
        ELSE LET at == CHOOSE i \in found : \A j \in found : i <= j
             IN  SubSeq(students_list, 1, at - 1)
                     \o SubSeq(students_list, at + 1, Len(students_list))

\* lines 17-26: nothing without students, else the records are transformed
\* and then only read
run_full_report(students_list, cfg) ==
    IF students_list = <<>> THEN students_list
    ELSE transform_records(students_list, cfg)

(***************************************************************************)
(* SpecMenu: the main menu loop over a roster of at most MaxMenuRoster     *)
(* students                                                                *)
(***************************************************************************)
NameReyes == <<"R", "e", "y", "e", "s">>
NameLim == <<"l", "i", "m">>
NameAna == <<"A", "n", "a">>

MenuRecords ==
    {[BlankRecord EXCEPT !.last_name = Str(last), !.first_name = Str(NameAna),
                         !.section = Section1A, !.midterm = m] :
        last \in {NameReyes, NameLim}, m \in {None, Whole(0), Whole(80)}}

MenuIds == {IdOf(i).s : i \in 1..MaxMenuRoster}

\* what the user may type at an id prompt
TypedIds == MenuIds \cup {<<>>, <<" ">> \o IdOf(1).s \o <<" ">>}

MenuConfig ==
    [grade_weights |-> <<MockWeights[2]>>, grading_scale |-> MockScale,
     at_risk_grade |-> Whole(20)]

NoCommand == [op |-> "", arg |-> <<>>]

InitMenu ==
    /\ pc = "menu"
    /\ input = NoCommand
    /\ output = <<>>
    /\ \E roster \in UNION {[1..n -> MenuRecords] : n \in 0..MaxMenuRoster} :
           students = WithIds(roster)
    /\ config = MenuConfig
    /\ prev = <<>>

\* choice 1
RunFullReport ==
    /\ pc = "menu"
    /\ prev' = students
    /\ students' = run_full_report(students, config)
    /\ input' = [op |-> "report", arg |-> <<>>]
    /\ UNCHANGED <<pc, output, config>>

\* choice 3: add_student asks for an id until it gets a new, non-empty one
AddStudentPrompt ==
    /\ pc = "menu"
    /\ Len(students) < MaxMenuRoster
    /\ pc' = "add_student"
    /\ UNCHANGED <<input, output, students, config, prev>>

AddStudentRejected ==
    /\ pc = "add_student"
    /\ \E typed \in TypedIds :
           /\ Strip(typed) = <<>> \/ IdTaken(students, Strip(typed))
           /\ input' = [op |-> "rejected", arg |-> typed]
    /\ UNCHANGED <<pc, output, students, config, prev>>

AddStudent ==
    /\ pc = "add_student"
    /\ \E typed \in TypedIds :
           /\ Strip(typed) # <<>>
           /\ ~IdTaken(students, Strip(typed))
           /\ prev' = students
           /\ students' = Append(students,
                                 NewStudent(Strip(typed), NameLim, NameAna, Section1A.s))
           /\ input' = [op |-> "add", arg |-> typed]
    /\ pc' = "menu"
    /\ UNCHANGED <<output, config>>

\* choice 4
DeleteStudent ==
    /\ pc = "menu"
    /\ \E typed \in TypedIds :
           /\ prev' = students
           /\ students' = delete_student(students, typed)
           /\ input' = [op |-> "delete", arg |-> typed]
    /\ UNCHANGED <<pc, output, config>>

\* choice 5
SortStudentsMenu ==
    /\ pc = "menu"
    /\ \E choice \in {"1", "2", "3", "4"} :
           /\ prev' = students
           /\ students' = sort_students_menu(students, config, choice)
           /\ input' = [op |-> "sort", arg |-> <<choice>>]
    /\ UNCHANGED <<pc, output, config>>

NextMenu ==
    \/ RunFullReport
    \/ AddStudentPrompt
    \/ AddStudentRejected
    \/ AddStudent
    \/ DeleteStudent
    \/ SortStudentsMenu

SpecMenu == InitMenu /\ [][NextMenu]_vars

(***************************************************************************)
(* C28, C29                                                                *)
(***************************************************************************)
IdsOf(rows) == {rows[i].student_id : i \in 1..Len(rows)}

\* the same records in some order, the derived fields apart
SameRecordsReordered(rows, before) ==
    /\ Len(rows) = Len(before)
    /\ \A i \in 1..Len(before) :
           \E j \in 1..Len(rows) :
               \A f \in NonDerivedFields : rows[j][f] = before[i][f]

\* C28: the roster never holds two records with the same student_id nor a
\* record with an empty id; add_student appends one record with an unused
\* non-empty id, delete_student removes exactly the record with the given
\* id or nothing, and sorting only permutes the records.
C28_RosterIntegrity ==
    /\ \A i, j \in 1..Len(students) :
           i # j => students[i].student_id # students[j].student_id
    /\ \A i \in 1..Len(students) :
           students[i].student_id.t = "str" /\ students[i].student_id.s # <<>>
    /\ input.op = "add" =>
           /\ Len(students) = Len(prev) + 1
           /\ SubSeq(students, 1, Len(prev)) = prev
           /\ students[Len(students)].student_id \notin IdsOf(prev)
    /\ input.op = "delete" =>
           LET id == Str(SelectSeq(input.arg, LAMBDA c : c # " "))
           IN  IF id \in IdsOf(prev)
               THEN students = SelectSeq(prev, LAMBDA r : r.student_id # id)
               ELSE students = prev
    /\ input.op = "sort" =>
           /\ SameRecordsReordered(students, prev)
           /\ input.arg \in {<<"1">>, <<"2">>, <<"4">>} =>
                  \A i \in 1..Len(prev) : \E j \in 1..Len(students) : students[j] = prev[i]

\* a student was added under an id typed with blanks around it, after the
\* student with that id had been deleted
C28_Witness ==
    /\ input = [op |-> "add", arg |-> <<" ">> \o IdOf(1).s \o <<" ">>]
    /\ Len(students) = 2
    /\ students[1].student_id = IdOf(2)
    /\ students[2].student_id = IdOf(1)
    /\ students[2].last_name = Str(NameLim)
    /\ prev = <<students[1]>>

HasNumericScore(r) == r.final_score.t = "num"

\* C29: after 'Sort by Final Grade (High-to-Low)' the roster is ordered by
\* non-increasing final_score and every record without a numeric
\* final_score comes after every record with one, a score of 0 included.
C29_SortedByGrade ==
    (input.op = "sort" /\ input.arg = <<"3">>) =>
        \A i, j \in 1..Len(students) :
            i < j =>
                /\ HasNumericScore(students[j]) => HasNumericScore(students[i])
                /\ (HasNumericScore(students[i]) /\ HasNumericScore(students[j])) =>
                       RatLe(RatOf(students[j].final_score), RatOf(students[i].final_score))

====
